---- MODULE Spec2Model ----
(***************************************************************************)
(* The mock report API of server/index.js as a state machine: the closure  *)
(* counter of buildTicketId, the in-memory list `reports`, the wall clock  *)
(* read by `new Date()`, and one record per client connection holding the  *)
(* request in flight or the response received.  A handler of the server    *)
(* is synchronous JavaScript: it runs to completion, so each handler is    *)
(* one action; requests of different connections are handled in any order. *)
(*                                                                         *)
(* The chat page of src/pages/Chat.tsx is a second state machine over its  *)
(* React state: input events, submit events and the completion of the      *)
(* request a submit sent.  Its pure function resolveBotText is an operator *)
(* and has a specification of its own that calls it on any payload.        *)
(***************************************************************************)
EXTENDS Integers, Sequences, FiniteSets, TLC

VARIABLES counter, reports, now, conn

\* the chat page of src/pages/Chat.tsx: its React state, the configured
\* endpoint, the requests it has in flight, and two history variables: the
\* number of fetch calls made so far, and the last event handled: its type,
\* the value of isWaiting its handler saw, and what the network delivered
VARIABLES messages, input, isWaiting, errorMessage, API_BASE_URL, requests, fetches,
          lastEvent

\* one call of a pure function: its argument and what it returned
VARIABLES argument, result

serverVars == <<counter, reports, now, conn>>
chatVars == <<messages, input, isWaiting, errorMessage, API_BASE_URL, requests, fetches, lastEvent>>
\* the page of src/pages/MyReports.tsx: its React state (a record with one
\* field per useState), the configured endpoint, the page numbers of the
\* GET requests in flight, and as history the number of fetch calls made
\* and the last event handled
VARIABLES myReports, REPORTS_API_URL, loads, loadCount, loadEvent

\* the dialog of src/components/ReportModal.tsx: its props isOpen and
\* context and its React state (a record), what its host page passes (the
\* fallbackTitle and the context it opens the dialog with), the configured
\* endpoint, the POST requests in flight with what their handlers hold, and
\* as history the number of fetch calls made and the last event handled
VARIABLES modal, host, REPORT_API_URL, posts, postCount, modalEvent

callVars == <<argument, result>>
reportsVars == <<myReports, REPORTS_API_URL, loads, loadCount, loadEvent>>
modalVars == <<modal, host, REPORT_API_URL, posts, postCount, modalEvent>>
\* everything that runs in the browser
browser == <<chatVars, callVars, reportsVars, modalVars>>

vars == <<serverVars, browser>>

(***************************************************************************)
(* Bounds of the model.                                                    *)
(***************************************************************************)
\* successful POSTs explored from the freshly started server
MaxPosts == 2
\* the clock read by new Date() ranges over 0..MaxClock milliseconds
MaxClock == 1
\* largest page / limit number the pagination claims quantify over
MaxPageArg == 3

(***************************************************************************)
(* JavaScript values.  A value that may be of several JS types is a tagged *)
(* tuple; ticket_id, status and created_at are always strings in the code  *)
(* and are plain strings here.                                             *)
(***************************************************************************)
Undefined == <<"undefined">>
Null == <<"null">>
JStr(s) == <<"string", s>>
JNum(n) == <<"number", n>>
NaN == <<"NaN">>
PosInfinity == <<"Infinity">>
NegInfinity == <<"-Infinity">>
JBool(b) == <<"boolean", b>>
\* an array, of the sequence of its elements
JArr(elems) == <<"array", elems>>
\* an object, of the sequence of its <<key, value>> members in insertion order
JObj(members) == <<"object", members>>

IsString(v) == v[1] = "string"
IsNumber(v) == v[1] = "number"

\* a ?? b
Coalesce(a, b) == IF a = Undefined \/ a = Null THEN b ELSE a

\* !v is false: ToBoolean(v)
Truthy(v) ==
    CASE v[1] = "undefined" -> FALSE
      [] v[1] = "null" -> FALSE
      [] v[1] = "boolean" -> v[2]
      [] v[1] = "string" -> v[2] # ""
      [] v[1] = "number" -> v[2] # 0
      [] v[1] = "NaN" -> FALSE
      [] OTHER -> TRUE

Min(a, b) == IF a < b THEN a ELSE b
Max(a, b) == IF a > b THEN a ELSE b

(***************************************************************************)
(* Number.parseInt(s, 10): leading white space is skipped, then an         *)
(* optional sign, then the longest run of decimal digits; no digit: NaN.   *)
(* White space is WhiteSpace and LineTerminator of ECMAScript; of these    *)
(* the strings of this module can hold space, tab, line feed, form feed    *)
(* and carriage return.                                                    *)
(***************************************************************************)
CharAt(s, i) == SubSeq(s, i, i)
IsWhiteSpace(ch) == ch \in {" ", "\t", "\n", "\f", "\r"}
IsDigit(ch) == ch \in {"0", "1", "2", "3", "4", "5", "6", "7", "8", "9"}
DigitValue(ch) == CHOOSE d \in 0..9 : CharAt("0123456789", d + 1) = ch

RECURSIVE SkipWhiteSpace(_, _)
SkipWhiteSpace(s, i) ==
    IF i <= Len(s) /\ IsWhiteSpace(CharAt(s, i)) THEN SkipWhiteSpace(s, i + 1) ELSE i

\* <<value of the digits of s from position i on, with acc read so far, number of digits read>>
RECURSIVE ReadDigits(_, _, _, _)
ReadDigits(s, i, acc, n) ==
    IF i <= Len(s) /\ IsDigit(CharAt(s, i))
    THEN ReadDigits(s, i + 1, 10 * acc + DigitValue(CharAt(s, i)), n + 1)
    ELSE <<acc, n>>

parseInt(v) ==
    LET s == v[2]
        i == SkipWhiteSpace(s, 1)
        signed == i <= Len(s) /\ CharAt(s, i) \in {"+", "-"}
        negative == signed /\ CharAt(s, i) = "-"
        r == ReadDigits(s, IF signed THEN i + 1 ELSE i, 0, 0)
    IN  IF r[2] = 0 THEN NaN
        ELSE JNum(IF negative THEN 0 - r[1] ELSE r[1])

(***************************************************************************)
(* Arithmetic on numbers: NaN propagates.  The operands of -, * and + in   *)
(* the GET handler are integers or NaN.                                    *)
(***************************************************************************)
JsSub(a, b) == IF IsNumber(a) /\ IsNumber(b) THEN JNum(a[2] - b[2]) ELSE NaN
JsMul(a, b) == IF IsNumber(a) /\ IsNumber(b) THEN JNum(a[2] * b[2]) ELSE NaN
JsAdd(a, b) == IF IsNumber(a) /\ IsNumber(b) THEN JNum(a[2] + b[2]) ELSE NaN

\* CeilPos rounding down instead of up
CeilPosRoundsDown(n, d) == n \div d

\* ceil(n / d) for integers n and d > 0
CeilPos(n, d) == 0 - ((0 - n) \div d)

\* Math.ceil(a / b)
MathCeilDiv(a, b) ==
    IF ~(IsNumber(a) /\ IsNumber(b)) THEN NaN
    ELSE IF b[2] = 0
         THEN (IF a[2] = 0 THEN NaN ELSE IF a[2] > 0 THEN PosInfinity ELSE NegInfinity)
         ELSE IF b[2] > 0 THEN JNum(CeilPos(a[2], b[2]))
              ELSE JNum(CeilPos(0 - a[2], 0 - b[2]))

\* Array.prototype.slice's reading of an index: NaN is 0, a negative index
\* counts from the end, everything is clamped to 0..len
RelativeIndex(len, n) ==
    LET r == IF IsNumber(n) THEN n[2] ELSE 0
    IN  IF r < 0 THEN Max(len + r, 0) ELSE Min(r, len)

\* slice taking the element at `end` too
sliceInclusiveEnd(arr, start, end) ==
    LET k == RelativeIndex(Len(arr), start)
        final == Min(RelativeIndex(Len(arr), end) + 1, Len(arr))
    IN  IF k >= final THEN <<>> ELSE SubSeq(arr, k + 1, final)

\* arr.slice(start, end)
slice(arr, start, end) ==
    LET k == RelativeIndex(Len(arr), start)
        final == RelativeIndex(Len(arr), end)
    IN  IF k >= final THEN <<>> ELSE SubSeq(arr, k + 1, final)

\* JSON.stringify of a number, as res.json writes it: NaN and the infinities are null
JsonNumber(n) == IF IsNumber(n) THEN n ELSE Null

(***************************************************************************)
(* new Date().toISOString().  The clock `now` counts the milliseconds      *)
(* since the second in which the server started.                           *)
(***************************************************************************)
Pad3(n) == IF n < 10 THEN "00" \o ToString(n) ELSE IF n < 100 THEN "0" \o ToString(n) ELSE ToString(n)
toISOString(t) == "2025-11-08T12:00:00." \o Pad3(t) \o "Z"

(***************************************************************************)
(* buildTicketId: the closure counter and the id it returns.               *)
(***************************************************************************)
CounterSeed == 8394

\* NextCounter without the increment
NextCounterStuck(c) == c

\* NextCounter that leaves a number out
NextCounterSkips(c) == c + 2

\* the value of counter after `counter += 1`
NextCounter(c) == c + 1

\* the template literal `SBU-${counter}`
TicketIdOf(c) == "SBU-" \o ToString(c)

\* buildTicketId(): <<new value of counter, returned id>>
buildTicketId(c) == <<NextCounter(c), TicketIdOf(NextCounter(c))>>

(***************************************************************************)
(* The two tickets the list is seeded with.  They have no location key.    *)
(***************************************************************************)
SeedReports ==
    << [ ticket_id |-> "SBU-84393",
         issue_type |-> JStr("Suspicious Individual"),
         title |-> JStr("Suspicious person near library entrance"),
         description |-> JStr("Observed an individual acting suspiciously near the main library entrance around 2 PM."),
         location |-> Undefined,
         status |-> "Pending Review",
         created_at |-> "2023-10-27 14:30:00" ],
       [ ticket_id |-> "SBU-84392",
         issue_type |-> JStr("Suspicious Individual"),
         title |-> JStr("Person seen tailgating into secure lab"),
         description |-> JStr("An individual followed a staff member through the secure lab doors without a badge."),
         location |-> Undefined,
         status |-> "Pending Review",
         created_at |-> "2023-10-26 18:00:00" ] >>

(***************************************************************************)
(* GET /api/reports                                                        *)
(***************************************************************************)
ListReports(store, query) ==
    LET page == parseInt(Coalesce(query.page, JStr("1")))
        limit == parseInt(Coalesce(query.limit, JStr("10")))
        start == JsMul(JsSub(page, JNum(1)), limit)
        end == JsAdd(start, limit)
        results == slice(store, start, end)
    IN  [ status |-> 200,
          body |-> [ data |-> results,
                     pagination |->
                       [ totalResults |-> JsonNumber(JNum(Len(store))),
                         totalPages |-> JsonNumber(MathCeilDiv(JNum(Len(store)), limit)),
                         currentPage |-> JsonNumber(page) ] ] ]

(***************************************************************************)
(* POST /api/reports                                                       *)
(***************************************************************************)
EmptyBody ==
    [issue_type |-> Undefined, title |-> Undefined, description |-> Undefined, location |-> Undefined]

\* req.body ?? {}
BodyOf(req) == IF req.hasBody THEN req.body ELSE EmptyBody

\* the guard of the 400 branch
MissingRequired(b) == ~Truthy(b.issue_type) \/ ~Truthy(b.title) \/ ~Truthy(b.description)

BadRequest ==
    [ status |-> 400,
      body |-> [message |-> "issue_type, title, and description are required."] ]

\* MakeReport without the `?? null` on location
MakeReportRawLocation(ticket_id, b, created_at) ==
    [ ticket_id |-> ticket_id,
      issue_type |-> b.issue_type,
      title |-> b.title,
      description |-> b.description,
      location |-> b.location,
      status |-> "Pending Review",
      created_at |-> created_at ]

\* the report object literal
MakeReport(ticket_id, b, created_at) ==
    [ ticket_id |-> ticket_id,
      issue_type |-> b.issue_type,
      title |-> b.title,
      description |-> b.description,
      location |-> Coalesce(b.location, Null),
      status |-> "Pending Review",
      created_at |-> created_at ]

\* unshift overwriting the first element instead of shifting it
unshiftOverwrite(store, report) == <<report>> \o Tail(store)

\* push in place of unshift: the report goes to the end
unshiftAtEnd(store, report) == store \o <<report>>

\* unshift that keeps the list at its length, dropping the oldest ticket
unshiftBounded(store, report) == <<report>> \o SubSeq(store, 1, Len(store) - 1)

\* reports.unshift(report)
unshift(store, report) == <<report>> \o store

Created(report) ==
    [ status |-> 201,
      body |-> [message |-> "Report submitted successfully", report |-> report] ]

(***************************************************************************)
(* Requests the clients send.                                              *)
(***************************************************************************)
BaseBody ==
    [issue_type |-> JStr("Phishing"), title |-> JStr("t"), description |-> JStr("d"), location |-> Undefined]

\* values tried for a required field: absent, empty, white space only
OddValues == {Undefined, JStr(""), JStr(" ")}

\* BaseBody and every body that differs from it in one field
Bodies ==
    {[BaseBody EXCEPT ![f] = v] : f \in {"issue_type", "title", "description"}, v \in OddValues}
    \cup {[BaseBody EXCEPT !.location = v] : v \in {Undefined, Null, JStr("Library")}}

\* page and limit as positive numerals, and the other values tried for each:
\* absent, no number, below 1
PageArgs == {JStr("1"), JStr("2"), JStr("3")}
LimitArgs == {JStr("2"), JStr("3"), JStr("10")}
OddPageArgs == {Undefined, JStr("abc"), JStr("-1"), JStr("0"), JStr("\f2")}
OddLimitArgs == {Undefined, JStr("abc"), JStr("0")}
Queries ==
    [page : PageArgs, limit : LimitArgs]
    \cup [page : OddPageArgs, limit : {Undefined, JStr("2")}]
    \cup [page : {Undefined, JStr("1")}, limit : OddLimitArgs]

GetRequest(q) == [method |-> "GET", query |-> q]
PostRequest(hasBody, b) == [method |-> "POST", hasBody |-> hasBody, body |-> b]

(***************************************************************************)
(* The state after construction: the module has been evaluated, no request *)
(* has arrived.                                                            *)
(***************************************************************************)
Idle == [st |-> "idle", overlap |-> {}]

\* the message list of a freshly mounted chat page (the React key `id` of a
\* message is not modelled)
initialMessages ==
    << [ sender |-> "bot",
         text |-> JStr("Hi there! Welcome to the Hackerton chatbot demo. How can I help you today?"),
         isSuspicious |-> Undefined ] >>

\* a value of VITE_NEURALSEEK_API_BASE
EndpointUrl == "https://api.example.com"

\* an event: detail is <<"none">>, or how a request ended: <<"rejected">>,
\* <<"status", code>>, <<"not json">> or <<"ok", data>>
Event(type, waiting, detail) == [type |-> type, waiting |-> waiting, detail |-> detail]
NoDetail == <<"none">>

\* the chat page as mounted, with endpoint url: useState initial values,
\* nothing sent
ChatMounted(url) ==
    /\ messages = initialMessages
    /\ input = ""
    /\ isWaiting = FALSE
    /\ errorMessage = Null
    /\ API_BASE_URL = url
    /\ requests = <<>>
    /\ fetches = 0
    /\ lastEvent = Event("mount", FALSE, NoDetail)

\* the value of VITE_REPORT_API_URL: the report API of server/index.js
ReportApiUrl == "http://localhost:4000/api/reports"

\* the state of MyReports as mounted: useState initial values
MyReportsState ==
    [ reports |-> <<>>,
      totalResults |-> 0,
      totalPages |-> 1,
      currentPage |-> 1,
      searchTerm |-> "",
      activeStatus |-> "all",
      isLoading |-> FALSE,
      errorMessage |-> Null ]

\* MyReports with endpoint url, before its first effect has run
ReportsMounted(url) ==
    /\ myReports = MyReportsState
    /\ REPORTS_API_URL = url
    /\ loads = <<>>
    /\ loadCount = 0
    /\ loadEvent = Event("mount", FALSE, NoDetail)

\* the props and state of a ReportModal that is mounted and not open
ModalState ==
    [ isOpen |-> FALSE,
      context |-> Null,
      selectedIssue |-> Null,
      details |-> "",
      mode |-> "form",
      submission |-> Null,
      isSubmitting |-> FALSE,
      submitError |-> Null ]

\* the detail of a secureSBU:openReport event
Detail(flaggedMessage, reason, issueType, ticketId, details) ==
    [ flaggedMessage |-> flaggedMessage, reason |-> reason, issueType |-> issueType,
      ticketId |-> ticketId, timestamp |-> Undefined, details |-> details ]

\* the detail GlobalNav.handleOpenReport dispatches
NavDetail ==
    Detail(JStr("Manual report from navigation bar"),
           JStr("User opened report dialog from the navigation."),
           Undefined, Undefined, Undefined)

\* the home page as host of the dialog: its button sets no context
HomeHost ==
    [page |-> "home", fallbackTitle |-> "Suspicious report submitted from dashboard", context |-> Null]

\* the dialog with endpoint url, closed, nothing sent
ModalMounted(url) ==
    /\ modal = ModalState
    /\ host = HomeHost
    /\ REPORT_API_URL = url
    /\ posts = <<>>
    /\ postCount = 0
    /\ modalEvent = Event("mount", FALSE, NoDetail)

\* no pure function has been called
NotCalled == <<"not called">>
NoCall ==
    /\ argument = Undefined
    /\ result = NotCalled

ServerStarted(clients) ==
    /\ counter = CounterSeed
    /\ reports = SeedReports
    /\ now = 0
    /\ conn = [c \in clients |-> Idle]

InitFor(clients) ==
    /\ ServerStarted(clients)
    /\ ChatMounted(EndpointUrl)
    /\ ReportsMounted(ReportApiUrl)
    /\ ModalMounted(ReportApiUrl)
    /\ NoCall

Init == InitFor({1})

(***************************************************************************)
(* Actions.  conn[c].overlap is history: the connections whose recorded    *)
(* request was in flight at some moment while that of c was in flight.     *)
(***************************************************************************)
InFlight(c) == conn[c].st = "sent"

\* connection c sends request r
Send(c, r) ==
    /\ conn[c].st # "sent"
    /\ conn' = [d \in DOMAIN conn |->
                  IF d = c
                  THEN [st |-> "sent", req |-> r, overlap |-> {e \in DOMAIN conn \ {c} : InFlight(e)}]
                  ELSE IF InFlight(d)
                       THEN [conn[d] EXCEPT !.overlap = @ \cup {c}]
                       ELSE [conn[d] EXCEPT !.overlap = @ \ {c}]]
    /\ UNCHANGED <<counter, reports, now>>
    /\ UNCHANGED browser

SendGet(c, q) == Send(c, GetRequest(q))

SendPost(c, hasBody, b) == Send(c, PostRequest(hasBody, b))

Respond(c, res) ==
    conn' = [conn EXCEPT ![c] = [st |-> "done", req |-> conn[c].req, overlap |-> conn[c].overlap, res |-> res]]

\* app.get('/api/reports', ...)
HandleGet(c) ==
    /\ InFlight(c)
    /\ conn[c].req.method = "GET"
    /\ Respond(c, ListReports(reports, conn[c].req.query))
    /\ UNCHANGED <<counter, reports, now>>
    /\ UNCHANGED browser

\* app.post('/api/reports', ...); maxCounter caps the counter
HandlePost(c, maxCounter) ==
    /\ InFlight(c)
    /\ conn[c].req.method = "POST"
    /\ UNCHANGED browser
    /\ LET b == BodyOf(conn[c].req)
       IN  IF MissingRequired(b)
           THEN /\ Respond(c, BadRequest)
                /\ UNCHANGED <<counter, reports, now>>
           ELSE LET id == buildTicketId(counter)
                    report == MakeReport(id[2], b, toISOString(now))
                IN  /\ counter < maxCounter
                    /\ counter' = id[1]
                    /\ reports' = unshift(reports, report)
                    /\ Respond(c, Created(report))
                    /\ UNCHANGED now

\* time passes
Tick ==
    /\ now < MaxClock
    /\ now' = now + 1
    /\ UNCHANGED <<counter, reports, conn>>
    /\ UNCHANGED browser

Next ==
    \/ \E c \in DOMAIN conn, q \in Queries : SendGet(c, q)
    \/ \E c \in DOMAIN conn, b \in Bodies : SendPost(c, TRUE, b)
    \/ \E c \in DOMAIN conn : SendPost(c, FALSE, EmptyBody)
    \/ \E c \in DOMAIN conn : HandleGet(c)
    \/ \E c \in DOMAIN conn : HandlePost(c, CounterSeed + MaxPosts)
    \/ Tick

Spec == Init /\ [][Next]_vars

(***************************************************************************)
(* The server after a long run.  StoreAfter(n) is the list after n         *)
(* successful POSTs of BaseBody at time 0 from the state after             *)
(* construction (StoreAfterIsReached checks this against the actions for   *)
(* the small n that Spec explores).  SpecWarm starts the server from that  *)
(* reachable state, MaxPosts requests before its counter arrives at the    *)
(* number of the older seeded ticket.                                      *)
(***************************************************************************)
\* the number in the ticket_id of the last seeded ticket, 'SBU-84392'
LowestSeedNumber == 84392

WarmPosts == LowestSeedNumber - CounterSeed - MaxPosts

StoreAfter(n) ==
    [i \in 1..n |-> MakeReport(TicketIdOf(CounterSeed + n + 1 - i), BaseBody, toISOString(0))]
    \o SeedReports

\* every ticket created so far came from BaseBody at time 0
OnlyBasePosts ==
    \A i \in 1..(Len(reports) - Len(SeedReports)) :
        reports[i] = MakeReport(reports[i].ticket_id, BaseBody, toISOString(0))

StoreAfterIsReached ==
    OnlyBasePosts => reports = StoreAfter(counter - CounterSeed)

InitWarm ==
    /\ counter = CounterSeed + WarmPosts
    /\ reports = StoreAfter(WarmPosts)
    /\ now = 0
    /\ conn = [c \in {1} |-> Idle]
    /\ ChatMounted(EndpointUrl)
    /\ ReportsMounted(ReportApiUrl)
    /\ ModalMounted(ReportApiUrl)
    /\ NoCall

WarmBodies == {BaseBody, [BaseBody EXCEPT !.title = JStr("")], [BaseBody EXCEPT !.location = JStr("Library")]}
WarmQueries == {[page |-> Undefined, limit |-> Undefined], [page |-> JStr("2"), limit |-> JStr("1")]}

NextWarm ==
    \/ \E c \in DOMAIN conn, q \in WarmQueries : SendGet(c, q)
    \/ \E c \in DOMAIN conn, b \in WarmBodies : SendPost(c, TRUE, b)
    \/ \E c \in DOMAIN conn : HandleGet(c)
    \/ \E c \in DOMAIN conn : HandlePost(c, CounterSeed + WarmPosts + MaxPosts)
    \/ Tick

SpecWarm == InitWarm /\ [][NextWarm]_vars

(***************************************************************************)
(* Claims                                                                  *)
(***************************************************************************)
TicketIds(store) == {store[i].ticket_id : i \in 1..Len(store)}

\* a step in which the handler of connection c's request runs
Handled(c) == conn[c].st = "sent" /\ conn'[c].st = "done"

\* C1: no two tickets of the store, the two seeded ones included, share a
\* ticket_id, after any sequence of POST requests.
C1_TicketIdsUnique == Cardinality(TicketIds(reports)) = Len(reports)

\* String.prototype.trim, as the claims about blank fields read it
RECURSIVE TrimEnd(_)
TrimEnd(s) ==
    IF Len(s) > 0 /\ IsWhiteSpace(CharAt(s, Len(s))) THEN TrimEnd(SubSeq(s, 1, Len(s) - 1)) ELSE s
trim(s) == LET i == SkipWhiteSpace(s, 1) IN TrimEnd(SubSeq(s, i, Len(s)))

\* a field that is missing, empty, or empty after trimming
IsBlank(v) == v = Undefined \/ v = Null \/ (IsString(v) /\ trim(v[2]) = "")
\* a field that is a non-empty string
NonEmpty(v) == IsString(v) /\ v[2] # ""

IsPost(c) == conn[c].req.method = "POST"
IsGet(c) == conn[c].req.method = "GET"

\* C2: a POST whose issue_type, title or description is missing, empty, or
\* empty after trimming white space is answered 400 with a message, and no
\* ticket is created.
C2_BlankFieldRejected ==
    [][\A c \in DOMAIN conn :
        (/\ Handled(c)
         /\ IsPost(c)
         /\ LET b == BodyOf(conn[c].req)
            IN  IsBlank(b.issue_type) \/ IsBlank(b.title) \/ IsBlank(b.description))
        => (/\ conn'[c].res.status = 400
            /\ "message" \in DOMAIN conn'[c].res.body
            /\ reports' = reports
            /\ counter' = counter)]_vars

\* C3: a POST whose issue_type, title and description are all non-empty is
\* answered 201 with the confirmation message and the created report, and
\* the store grows by exactly one ticket.
C3_NonEmptySucceeds ==
    [][\A c \in DOMAIN conn :
        (/\ Handled(c)
         /\ IsPost(c)
         /\ LET b == BodyOf(conn[c].req)
            IN  NonEmpty(b.issue_type) /\ NonEmpty(b.title) /\ NonEmpty(b.description))
        => (/\ conn'[c].res.status = 201
            /\ conn'[c].res.body.message = "Report submitted successfully"
            /\ Len(reports') = Len(reports) + 1
            /\ \E i \in 1..Len(reports') : reports'[i] = conn'[c].res.body.report
            /\ \A t \in {reports[i] : i \in 1..Len(reports)} :
                 \E i \in 1..Len(reports') : reports'[i] = t)]_vars

\* a 201 response is recorded for a white-space-only title, and the store
\* holds one ticket more than the seeded ones
C3_Witness ==
    \E c \in DOMAIN conn :
        /\ conn[c].st = "done"
        /\ IsPost(c)
        /\ conn[c].req.hasBody
        /\ conn[c].req.body.title = JStr(" ")
        /\ conn[c].res.status = 201
        /\ Len(reports) = Len(SeedReports) + 1

\* a step in which connection c's POST is answered 201
PostSucceeded(c) == Handled(c) /\ IsPost(c) /\ conn'[c].res.status = 201

\* C4: the ticket created by a successful POST has status 'Pending Review',
\* the submitted issue_type, title and description unchanged, and the
\* submitted location, or null when no location was submitted.
C4_CreatedTicketFields ==
    [][\A c \in DOMAIN conn :
        PostSucceeded(c) =>
            LET b == BodyOf(conn[c].req)
                t == conn'[c].res.body.report
            IN  /\ t.status = "Pending Review"
                /\ t.issue_type = b.issue_type
                /\ t.title = b.title
                /\ t.description = b.description
                /\ t.location = (IF b.location = Undefined THEN Null ELSE b.location)
                /\ \E i \in 1..Len(reports') : reports'[i] = t]_vars

\* a ticket created from a body without location is stored with location null
C4_Witness ==
    \E c \in DOMAIN conn :
        /\ conn[c].st = "done"
        /\ IsPost(c)
        /\ conn[c].res.status = 201
        /\ BodyOf(conn[c].req).location = Undefined
        /\ conn[c].res.body.report.location = Null
        /\ conn[c].res.body.report.status = "Pending Review"
        /\ reports[1] = conn[c].res.body.report

FirstPageQuery == [page |-> JStr("1"), limit |-> JStr("10")]

\* C5: a successful POST puts the created ticket at the front of the store
\* and leaves the earlier tickets in their order behind it; a GET with
\* page=1 and limit=10 of the store right after it has that ticket as
\* data[0], with a non-empty ticket_id.
C5_NewestFirst ==
    [][\A c \in DOMAIN conn :
        PostSucceeded(c) =>
            LET t == conn'[c].res.body.report
                got == ListReports(reports', FirstPageQuery)
            IN  /\ Len(reports') = Len(reports) + 1
                /\ reports'[1] = t
                /\ \A i \in 1..Len(reports) : reports'[i + 1] = reports[i]
                /\ got.status = 200
                /\ Len(got.body.data) >= 1
                /\ got.body.data[1] = t
                /\ t.ticket_id # ""]_vars

\* two tickets were created: the later one is first, the earlier one second,
\* the seeded ones behind them
C5_Witness ==
    \E c \in DOMAIN conn :
        /\ conn[c].st = "done"
        /\ IsPost(c)
        /\ conn[c].res.status = 201
        /\ Len(reports) = Len(SeedReports) + 2
        /\ reports[1] = conn[c].res.body.report
        /\ reports[1].ticket_id = TicketIdOf(CounterSeed + 2)
        /\ reports[2].ticket_id = TicketIdOf(CounterSeed + 1)
        /\ SubSeq(reports, 3, 4) = SeedReports

\* the query string ?page=p&limit=l
QueryOf(p, l) == [page |-> JStr(ToString(p)), limit |-> JStr(ToString(l))]

\* the elements of store at the 0-based positions (p-1)*l .. p*l - 1 that exist
PageOf(store, p, l) ==
    [i \in 1..Max(0, Min(Len(store), p * l) - (p - 1) * l) |-> store[(p - 1) * l + i]]

\* C6: for positive integers page and limit, a GET returns with status 200
\* exactly the store elements at the 0-based positions
\* [(page-1)*limit, page*limit), in store order; a page beyond the last one
\* returns an empty data array.
C6_PageSlice ==
    [][\A c \in DOMAIN conn :
        (Handled(c) /\ IsGet(c)) =>
            \A p \in 1..MaxPageArg, l \in 1..10 :
                conn[c].req.query = QueryOf(p, l)
                => (/\ conn'[c].res.status = 200
                    /\ conn'[c].res.body.data = PageOf(reports, p, l)
                    /\ ((p - 1) * l >= Len(reports) => conn'[c].res.body.data = <<>>))]_vars

\* page 2 with limit 3 of a store of four tickets was answered with the
\* fourth ticket alone
C6_Witness ==
    \E c \in DOMAIN conn :
        /\ conn[c].st = "done"
        /\ IsGet(c)
        /\ conn[c].req.query = QueryOf(2, 3)
        /\ Len(reports) = 4
        /\ conn[c].res.body.data = <<reports[4]>>

RECURSIVE ConcatPages(_, _, _)
\* the data arrays of the GET responses for page = 1..n, concatenated
ConcatPages(store, l, n) ==
    IF n = 0 THEN <<>>
    ELSE ConcatPages(store, l, n - 1) \o ListReports(store, QueryOf(n, l)).body.data

\* C7: with the store unchanged and a fixed positive limit, the data arrays
\* of the GET responses for page = 1..totalPages, concatenated, are the
\* store: each ticket once, in store order.
C7_PagesCoverStore ==
    \A l \in 1..MaxPageArg :
        LET totalPages == ListReports(reports, QueryOf(1, l)).body.pagination.totalPages
        IN  /\ IsNumber(totalPages)
            /\ ConcatPages(reports, l, totalPages[2]) = reports

\* a store of three tickets read with limit 2: two pages, the last one partial
C7_Witness ==
    /\ Len(reports) = 3
    /\ ListReports(reports, QueryOf(1, 2)).body.pagination.totalPages = JNum(2)
    /\ Len(ListReports(reports, QueryOf(2, 2)).body.data) = 1
    /\ ConcatPages(reports, 2, 2) = reports

\* a query parameter that is the decimal numeral of an integer
Numeric(arg) == \E n \in -1..10 : arg = JStr(ToString(n))
\* the number a parameter asks for: its value, or the default when it is
\* missing or no number
Requested(arg, default) ==
    IF Numeric(arg) THEN CHOOSE n \in -1..10 : arg = JStr(ToString(n)) ELSE default
\* ceil(n / d) for d > 0, from its definition
CeilOf(n, d) == CHOOSE k \in 0..n : k * d >= n /\ (k - 1) * d < n

\* C8: every GET response has totalResults equal to the number of tickets in
\* the store, currentPage equal to the requested page, and totalPages equal
\* to ceil(totalResults / limit) (stated for a requested limit above 0).
C8_PaginationTotals ==
    [][\A c \in DOMAIN conn :
        (Handled(c) /\ IsGet(c)) =>
            LET page == Requested(conn[c].req.query.page, 1)
                limit == Requested(conn[c].req.query.limit, 10)
                pagination == conn'[c].res.body.pagination
            IN  /\ pagination.totalResults = JNum(Len(reports))
                /\ pagination.currentPage = JNum(page)
                /\ (limit > 0 => pagination.totalPages = JNum(CeilOf(Len(reports), limit)))]_vars

\* C9: a GET whose page or limit is missing or non-numeric is answered as if
\* the default (page 1, limit 10) had been given in its place.
C9_DefaultsApplied ==
    [][\A c \in DOMAIN conn :
        (/\ Handled(c)
         /\ IsGet(c)
         /\ (~Numeric(conn[c].req.query.page) \/ ~Numeric(conn[c].req.query.limit)))
        => LET q == conn[c].req.query
               defaulted == [page |-> IF Numeric(q.page) THEN q.page ELSE JStr("1"),
                             limit |-> IF Numeric(q.limit) THEN q.limit ELSE JStr("10")]
           IN  conn'[c].res = ListReports(reports, defaulted)]_vars

(***************************************************************************)
(* Two connections, whose requests may be in flight at the same time.      *)
(***************************************************************************)
InitConc == InitFor({1, 2})

ConcBodies == {BaseBody, [BaseBody EXCEPT !.description = JStr(" ")], [BaseBody EXCEPT !.title = Undefined]}
ConcQueries == {[page |-> Undefined, limit |-> Undefined]}

NextConc ==
    \/ \E c \in DOMAIN conn, q \in ConcQueries : SendGet(c, q)
    \/ \E c \in DOMAIN conn, b \in ConcBodies : SendPost(c, TRUE, b)
    \/ \E c \in DOMAIN conn : HandleGet(c)
    \/ \E c \in DOMAIN conn : HandlePost(c, CounterSeed + MaxPosts)
    \/ Tick

SpecConc == InitConc /\ [][NextConc]_vars

\* connections c and d hold the 201 responses of two POSTs that were in
\* flight at the same time
BothCreated(c, d) ==
    /\ c # d
    /\ conn[c].st = "done" /\ IsPost(c) /\ conn[c].res.status = 201
    /\ conn[d].st = "done" /\ IsPost(d) /\ conn[d].res.status = 201
    /\ d \in conn[c].overlap

\* C10: two POSTs in progress at the same time get different ticket_ids in
\* every order of their handlers, and both tickets are in the store
\* afterwards.
C10_ConcurrentPosts ==
    \A c, d \in DOMAIN conn :
        BothCreated(c, d) =>
            LET t == conn[c].res.body.report
                u == conn[d].res.body.report
            IN  /\ t.ticket_id # u.ticket_id
                /\ \E i \in 1..Len(reports) : reports[i] = t
                /\ \E i \in 1..Len(reports) : reports[i] = u
                /\ Cardinality({i \in 1..Len(reports) : reports[i].ticket_id \in {t.ticket_id, u.ticket_id}}) = 2

\* connection 2 sent its POST while that of connection 1 was in flight and
\* was handled first; both were answered 201
C10_Witness ==
    /\ BothCreated(1, 2)
    /\ conn[2].res.body.report.ticket_id = TicketIdOf(CounterSeed + 1)
    /\ conn[1].res.body.report.ticket_id = TicketIdOf(CounterSeed + 2)
    /\ Len(reports) = Len(SeedReports) + 2

(***************************************************************************)
(* C11.  No request removes or changes a ticket already in the store.      *)
(***************************************************************************)
\* the position of a status in the order Pending Review, In Progress, Resolved
StatusRank(s) ==
    CASE s = "Pending Review" -> 1
      [] s = "In Progress" -> 2
      [] s = "Resolved" -> 3

\* ticket t is kept as u: the fields set at creation are equal and the
\* status has not moved backwards
KeptAs(t, u) ==
    /\ u.ticket_id = t.ticket_id
    /\ u.issue_type = t.issue_type
    /\ u.title = t.title
    /\ u.description = t.description
    /\ u.location = t.location
    /\ u.created_at = t.created_at
    /\ StatusRank(u.status) >= StatusRank(t.status)

\* C11: in every step, GET or POST, handled or only sent, every ticket of
\* the store is still in the store, after the tickets the step added and in
\* the same order, with ticket_id, issue_type, title, description, location
\* and created_at as they were and a status that has not moved backwards.
C11_TicketsNeverChange ==
    [][ /\ Len(reports') >= Len(reports)
        /\ \A i \in 1..Len(reports) :
              KeptAs(reports[i], reports'[i + Len(reports') - Len(reports)])
      ]_vars

\* two tickets were created, a GET has been answered since, and the store
\* still ends with the two seeded tickets
C11_Witness ==
    \E c \in DOMAIN conn :
        /\ conn[c].st = "done"
        /\ IsGet(c)
        /\ Len(reports) = Len(SeedReports) + 2
        /\ SubSeq(reports, 3, 4) = SeedReports
        /\ reports[2].created_at = toISOString(0)

(***************************************************************************)
(* The chat page, src/pages/Chat.tsx.  First the JavaScript it relies on:  *)
(* property reads, Array.prototype.join, JSON.stringify(value, null, 2).   *)
(***************************************************************************)
IsArray(v) == v[1] = "array"
IsObject(v) == v[1] = "object"
IsNullish(v) == v[1] = "undefined" \/ v[1] = "null"

\* v.key, for v neither null nor undefined; the keys of an object are distinct
Get(v, key) ==
    IF IsObject(v) /\ \E i \in 1..Len(v[2]) : v[2][i][1] = key
    THEN v[2][CHOOSE i \in 1..Len(v[2]) : v[2][i][1] = key][2]
    ELSE Undefined

\* v?.key
OptGet(v, key) == IF IsNullish(v) THEN Undefined ELSE Get(v, key)

\* arr[0]
At0(arr) == IF Len(arr[2]) > 0 THEN arr[2][1] ELSE Undefined

\* the pieces of strs with sep between them
RECURSIVE Concat(_, _)
Concat(strs, sep) ==
    IF Len(strs) = 0 THEN ""
    ELSE IF Len(strs) = 1 THEN strs[1]
    ELSE strs[1] \o sep \o Concat(Tail(strs), sep)

\* ToString(v), and arr.join(sep): null and undefined elements give ''
RECURSIVE JsToString(_)
RECURSIVE join(_, _)
JsToString(v) ==
    CASE v[1] = "string" -> v[2]
      [] v[1] = "number" -> ToString(v[2])
      [] v[1] = "boolean" -> IF v[2] THEN "true" ELSE "false"
      [] v[1] = "null" -> "null"
      [] v[1] = "undefined" -> "undefined"
      [] v[1] = "array" -> join(v[2], ",")
      [] v[1] = "object" -> "[object Object]"
join(elems, sep) ==
    Concat([i \in 1..Len(elems) |-> IF IsNullish(elems[i]) THEN "" ELSE JsToString(elems[i])], sep)

\* the JSON text of a string: quoted, with ", \ and the control characters
\* escaped (of the control characters a string of this module can hold tab,
\* line feed, form feed and carriage return)
RECURSIVE Escaped(_)
Escaped(s) ==
    IF \A i \in 1..Len(s) : CharAt(s, i) \notin {"\"", "\\", "\n", "\t", "\r", "\f"} THEN s
    ELSE IF Len(s) = 1
    THEN CASE s = "\"" -> "\\\""
           [] s = "\\" -> "\\\\"
           [] s = "\n" -> "\\n"
           [] s = "\t" -> "\\t"
           [] s = "\r" -> "\\r"
           [] s = "\f" -> "\\f"
           [] OTHER -> s
    ELSE LET half == Len(s) \div 2
         IN  Escaped(SubSeq(s, 1, half)) \o Escaped(SubSeq(s, half + 1, Len(s)))
Quote(s) == "\"" \o Escaped(s) \o "\""

\* JSON.stringify(v, null, 2) of a JSON value v, at indentation ind
Gap == "  "
RECURSIVE Serialize(_, _)
Serialize(v, ind) ==
    CASE v[1] = "string" -> Quote(v[2])
      [] v[1] = "number" -> ToString(v[2])
      [] v[1] = "boolean" -> IF v[2] THEN "true" ELSE "false"
      [] v[1] = "null" -> "null"
      [] v[1] = "array" ->
            IF Len(v[2]) = 0 THEN "[]"
            ELSE "[\n"
                 \o Concat([i \in 1..Len(v[2]) |-> ind \o Gap \o Serialize(v[2][i], ind \o Gap)], ",\n")
                 \o "\n" \o ind \o "]"
      [] v[1] = "object" ->
            IF Len(v[2]) = 0 THEN "{}"
            ELSE "{\n"
                 \o Concat([i \in 1..Len(v[2]) |->
                              ind \o Gap \o Quote(v[2][i][1]) \o ": " \o Serialize(v[2][i][2], ind \o Gap)], ",\n")
                 \o "\n" \o ind \o "}"
\* String(v) in place of JSON.stringify
stringifyAsString(v) == JsToString(v)

stringify(v) == Serialize(v, "")

(***************************************************************************)
(* resolveBotText.                                                         *)
(***************************************************************************)
\* typeof c === 'string' && c.trim().length > 0
HasText(c) == IsString(c) /\ Len(trim(c[2])) > 0

\* parts.filter((part) => typeof part === 'string' && part.trim().length > 0)
RECURSIVE filterWithText(_)
filterWithText(parts) ==
    IF Len(parts) = 0 THEN <<>>
    ELSE IF HasText(parts[1]) THEN <<parts[1]>> \o filterWithText(Tail(parts))
    ELSE filterWithText(Tail(parts))

\* Array.isArray(outputs) ? outputs.join('\n') : undefined
outputsJoined(maybeObject) ==
    IF IsArray(Get(maybeObject, "outputs"))
    THEN JStr(join(Get(maybeObject, "outputs")[2], "\n"))
    ELSE Undefined

\* the sourceParts candidate, with the filter left out
sourcePartsUnfiltered(maybeObject) ==
    IF IsArray(Get(maybeObject, "sourceParts")) /\ Len(Get(maybeObject, "sourceParts")[2]) > 0
    THEN JStr(join(Get(maybeObject, "sourceParts")[2], "\n"))
    ELSE Undefined

\* Array.isArray(sourceParts) && sourceParts.length > 0
\*   ? sourceParts.filter(...).join('\n') : undefined
sourcePartsJoined(maybeObject) ==
    IF IsArray(Get(maybeObject, "sourceParts")) /\ Len(Get(maybeObject, "sourceParts")[2]) > 0
    THEN JStr(join(filterWithText(Get(maybeObject, "sourceParts")[2]), "\n"))
    ELSE Undefined

\* the candidates with text tried before answer
candidatesTextFirst(maybeObject) ==
    << Get(maybeObject, "text"),
       Get(maybeObject, "answer"),
       Get(maybeObject, "response"),
       Get(maybeObject, "output"),
       outputsJoined(maybeObject),
       sourcePartsJoined(maybeObject),
       Get(maybeObject, "rendered"),
       Get(maybeObject, "data") >>

\* the array `candidates`
candidates(maybeObject) ==
    << Get(maybeObject, "answer"),
       Get(maybeObject, "response"),
       Get(maybeObject, "output"),
       outputsJoined(maybeObject),
       sourcePartsJoined(maybeObject),
       Get(maybeObject, "rendered"),
       Get(maybeObject, "text"),
       Get(maybeObject, "data") >>

\* a || b
Or(a, b) == IF Truthy(a) THEN a ELSE b
\* a && b
And(a, b) == IF Truthy(a) THEN b ELSE a

\* choiceContent read from choices[0].content, without .message
choiceContentOfChoice(maybeObject) ==
    LET choices == Get(maybeObject, "choices")
    IN  Or( And(choices,
                And(JBool(IsArray(choices)),
                    IF IsArray(choices) THEN OptGet(At0(choices), "content") ELSE Undefined)),
            JStr("") )

\* the value of `choiceContent`
choiceContent(maybeObject) ==
    LET choices == Get(maybeObject, "choices")
    IN  Or( And(choices,
                And(JBool(IsArray(choices)),
                    IF IsArray(choices)
                    THEN OptGet(OptGet(At0(choices), "message"), "content")
                    ELSE Undefined)),
            JStr("") )

\* the for loop over the candidates, from index i on: the first candidate
\* that has text, or Undefined
RECURSIVE firstWithText(_, _)
firstWithText(cands, i) ==
    IF i > Len(cands) THEN Undefined
    ELSE IF HasText(cands[i]) THEN cands[i]
    ELSE firstWithText(cands, i + 1)

\* the value returned, as a JavaScript value
resolveBotText(payload) ==
    IF ~Truthy(payload) THEN JStr("")
    ELSE IF IsString(payload) THEN payload
    ELSE LET candidate == firstWithText(candidates(payload), 1)
         IN  IF candidate # Undefined THEN candidate
             ELSE IF HasText(choiceContent(payload)) THEN choiceContent(payload)
             ELSE JStr(stringify(payload))

(***************************************************************************)
(* The payloads resolveBotText is called with: any value JSON.parse can    *)
(* give.  ObjectOf lists the members that are given, in the order of       *)
(* PayloadKeys; Undefined stands for a key that is not there.              *)
(***************************************************************************)
PayloadKeys ==
    <<"answer", "response", "output", "outputs", "sourceParts", "rendered", "text", "data", "choices", "id">>

IsGiven(m) == m[2] # Undefined
ObjectOf(values) == JObj(SelectSeq([i \in 1..Len(values) |-> <<PayloadKeys[i], values[i]>>], IsGiven))

\* { choices: [ { message: { content } } ] }
ChoicesOf(content) == JArr(<< JObj(<< <<"message", JObj(<< <<"content", content>> >>)>> >>) >>)

\* objects with any combination of the recognised keys, each absent, with
\* text, or without
KeyedPayloads ==
    { ObjectOf(<<a, r, o, os, sp, rd, t, d, ch, Undefined>>) :
        a \in {Undefined, JStr(" A "), JStr(" \f\n")},
        r \in {Undefined, JStr("R"), JNum(7)},
        o \in {Undefined, JStr("O"), Null},
        os \in {Undefined, JArr(<<JStr("o1"), JStr("o2")>>), JArr(<<JStr(" "), Null>>)},
        sp \in {Undefined, JArr(<<JStr("s1"), JStr(" "), JNum(3), JStr("s2")>>), JArr(<<JStr(" "), JNum(3)>>)},
        rd \in {Undefined, JStr("Rd"), JStr("")},
        t \in {Undefined, JStr("T"), JBool(TRUE)},
        d \in {Undefined, JStr("D"), JObj(<< <<"k", JNum(1)>> >>)},
        ch \in {Undefined, ChoicesOf(JStr("C"))} }

\* objects with one of outputs, sourceParts and choices in an unusual shape
OddPayloads ==
    { ObjectOf(<<Undefined, Undefined, Undefined, os, sp, Undefined, Undefined, d, ch, id>>) :
        os \in {Undefined, JArr(<<>>), JArr(<<JNum(1), Null, JStr("x")>>), JStr("o")},
        sp \in {Undefined, JArr(<<>>), JStr("sp"), JArr(<<Null>>)},
        d \in {Undefined, JStr("D")},
        ch \in {Undefined, ChoicesOf(JStr(" ")), ChoicesOf(JStr("")), ChoicesOf(JNum(5)), ChoicesOf(Null),
                JArr(<<>>), JArr(<<Null>>), JArr(<<JStr("s")>>), JStr("zz"),
                JArr(<< JObj(<< <<"message", Null>> >>) >>),
                JArr(<< JObj(<< <<"message", JStr("m")>> >>) >>),
                JArr(<< JObj(<<>>), JObj(<< <<"message", JObj(<< <<"content", JStr("second")>> >>)>> >>) >>)},
        id \in {Undefined, JNum(1)} }

\* payloads that are no objects
PlainPayloads ==
    { Null, JNum(0), JNum(5), JNum(-3), JBool(TRUE), JBool(FALSE),
      JStr(""), JStr("  "), JStr("plain"), JStr("{\"response\":\"hi\"}"),
      JArr(<<>>), JArr(<<JNum(1), JStr("a\"\fb")>>),
      JArr(<< JObj(<< <<"answer", JStr("in array")>> >>), JArr(<<Null>>) >>) }

Payloads == KeyedPayloads \cup OddPayloads \cup PlainPayloads

(***************************************************************************)
(* One call of resolveBotText on any payload.                              *)
(***************************************************************************)
InitResolve ==
    /\ ServerStarted({1})
    /\ ChatMounted(EndpointUrl)
    /\ ReportsMounted(ReportApiUrl)
    /\ ModalMounted(ReportApiUrl)
    /\ argument \in Payloads
    /\ result = NotCalled

CallResolveBotText ==
    /\ result = NotCalled
    /\ result' = resolveBotText(argument)
    /\ UNCHANGED <<serverVars, chatVars, reportsVars, modalVars, argument>>

NextResolve == CallResolveBotText

SpecResolve == InitResolve /\ [][NextResolve]_vars

(***************************************************************************)
(* C12.  The candidate resolveBotText returns for an object payload.       *)
(***************************************************************************)
Called == result # NotCalled

\* the strings among parts
RECURSIVE StringsOf(_)
StringsOf(parts) ==
    IF Len(parts) = 0 THEN <<>>
    ELSE IF IsString(parts[1]) THEN <<parts[1]>> \o StringsOf(Tail(parts))
    ELSE StringsOf(Tail(parts))

\* the strings with non-whitespace content among parts
TextsOf(parts) == SelectSeq(parts, HasText)

JoinedIfArray(v, Kept(_)) == IF IsArray(v) THEN JStr(join(Kept(v[2]), "\n")) ELSE Undefined
Whole(parts) == parts

\* the candidates of payload p in the order of the claim, the parts of
\* sourceParts that are kept being KeptParts(sourceParts)
Listed(p, KeptParts(_)) ==
    << Get(p, "answer"), Get(p, "response"), Get(p, "output"),
       JoinedIfArray(Get(p, "outputs"), Whole),
       JoinedIfArray(Get(p, "sourceParts"), KeptParts),
       Get(p, "rendered"), Get(p, "text"), Get(p, "data") >>

\* the places of the candidates that are strings with non-whitespace content
Qualifying(cands) == {i \in 1..Len(cands) : HasText(cands[i])}
Least(S) == CHOOSE i \in S : \A j \in S : i <= j

\* r is what the claim lets the call return, given the candidates: the first
\* qualifying one when there is one, and never one that does not qualify
FirstQualifyingReturned(cands, r) ==
    /\ Qualifying(cands) # {} => r = cands[Least(Qualifying(cands))]
    /\ \A i \in 1..Len(cands) : ~HasText(cands[i]) => r # cands[i]

\* C12 as stated: for an object payload resolveBotText returns the first of
\* answer, response, output, outputs joined by newline, sourceParts filtered
\* to strings and joined by newline, rendered, text, data that is a string
\* with non-whitespace content, and never a candidate that is absent, not a
\* string or whitespace-only.
C12_FirstListedCandidate ==
    (Called /\ IsObject(argument)) => FirstQualifyingReturned(Listed(argument, StringsOf), result)

\* C12 amended: the same, with sourceParts filtered to its strings with
\* non-whitespace content before it is joined by newline.
C12_FirstCandidateWithText ==
    (Called /\ IsObject(argument)) => FirstQualifyingReturned(Listed(argument, TextsOf), result)

\* the call returned the sourceParts candidate, passing over a
\* whitespace-only answer, a number and a null, with data and choices behind
C12_Witness ==
    /\ Called
    /\ IsObject(argument)
    /\ Get(argument, "answer") = JStr(" \f\n")
    /\ Get(argument, "response") = JNum(7)
    /\ Get(argument, "output") = Null
    /\ Get(argument, "sourceParts") = JArr(<<JStr("s1"), JStr(" "), JNum(3), JStr("s2")>>)
    /\ Get(argument, "data") = JStr("D")
    /\ Get(argument, "choices") # Undefined
    /\ result = JStr("s1\ns2")

(***************************************************************************)
(* C13.  The choices content is returned only when no candidate qualifies. *)
(***************************************************************************)
\* choices[0].message.content of payload p; Undefined when p has no choices
\* array or the array has no such content
ChoicesContent(p) ==
    LET choices == Get(p, "choices")
    IN  IF IsArray(choices) /\ Len(choices[2]) > 0
           /\ IsObject(choices[2][1]) /\ IsObject(Get(choices[2][1], "message"))
        THEN Get(Get(choices[2][1], "message"), "content")
        ELSE Undefined

IsNonEmptyString(v) == IsString(v) /\ v[2] # ""

\* r is what the claim lets the call on p return, Fits(content) saying when
\* the choices content is taken: the content when no candidate qualifies and
\* it fits; a qualifying candidate, and not the content, when one qualifies
ChoicesAfterCandidates(p, r, Fits(_)) ==
    LET cands == Listed(p, TextsOf)
        qualified == {cands[i] : i \in Qualifying(cands)}
    IN  /\ (qualified = {} /\ IsArray(Get(p, "choices")) /\ Fits(ChoicesContent(p)))
              => r = ChoicesContent(p)
        /\ qualified # {}
              => (r \in qualified /\ (ChoicesContent(p) \notin qualified => r # ChoicesContent(p)))

\* C13 as stated: when no top-level candidate qualifies and the payload has a
\* choices array, resolveBotText returns choices[0].message.content when that
\* is a non-empty string; when a candidate qualifies the choices content is
\* not returned.
C13_NonEmptyChoicesContent ==
    (Called /\ IsObject(argument)) => ChoicesAfterCandidates(argument, result, IsNonEmptyString)

\* C13 amended: the same, the content being returned when it is a string
\* with non-whitespace content.
C13_ChoicesContentWithText ==
    (Called /\ IsObject(argument)) => ChoicesAfterCandidates(argument, result, HasText)

\* every recognised key is given and none qualifies, and the call returned
\* the content of choices[0]
C13_Witness ==
    /\ Called
    /\ IsObject(argument)
    /\ \A i \in 1..8 : Get(argument, PayloadKeys[i]) # Undefined
    /\ Qualifying(Listed(argument, TextsOf)) = {}
    /\ ChoicesContent(argument) = JStr("C")
    /\ result = JStr("C")

(***************************************************************************)
(* C14.  The fallback: the pretty-printed payload.                         *)
(***************************************************************************)
\* neither a candidate of p nor its choices content qualifies
NothingQualifies(p) ==
    /\ Qualifying(Listed(p, TextsOf)) = {}
    /\ ~HasText(ChoicesContent(p))

\* JSON.stringify(payload, null, 2) of some payloads, written out
PrettyPrinted ==
    { <<JObj(<< <<"id", JNum(1)>> >>), "{\n  \"id\": 1\n}">>,
      <<JObj(<<>>), "{}">>,
      <<JNum(5), "5">>,
      <<JNum(-3), "-3">>,
      <<JBool(TRUE), "true">>,
      <<JArr(<<>>), "[]">>,
      <<JArr(<<JNum(1), JStr("a\"\fb")>>), "[\n  1,\n  \"a\\\"\\fb\"\n]">>,
      <<JArr(<< JObj(<< <<"answer", JStr("in array")>> >>), JArr(<<Null>>) >>),
        "[\n  {\n    \"answer\": \"in array\"\n  },\n  [\n    null\n  ]\n]">>,
      <<JObj(<< <<"outputs", JStr("o")>>, <<"choices", JArr(<<Null>>)>> >>),
        "{\n  \"outputs\": \"o\",\n  \"choices\": [\n    null\n  ]\n}">> }

\* the call on a payload of PrettyPrinted returned the text written there
ReturnedAsWritten == \A pair \in PrettyPrinted : argument = pair[1] => result = JStr(pair[2])

\* C14 as stated: for every payload that is not a string and for which
\* neither a candidate nor the choices content qualifies (null, numbers and
\* booleans included), resolveBotText returns the pretty-printed JSON of the
\* whole payload; and it returns a string for every input.
C14_FallbackIsPrettyJson ==
    Called =>
        /\ IsString(result)
        /\ (~IsString(argument) /\ NothingQualifies(argument)) => result = JStr(stringify(argument))

\* C14 amended: such a payload gives its pretty-printed JSON when it is
\* truthy (an object, an array, a number other than 0, true) and the empty
\* string when it is null, 0 or false; a string is returned for every input.
C14_FallbackForTruthyPayload ==
    Called =>
        /\ IsString(result)
        /\ (~IsString(argument) /\ NothingQualifies(argument)) =>
              IF argument \in {Null, JNum(0), JBool(FALSE)}
              THEN result = JStr("")
              ELSE result = JStr(stringify(argument)) /\ ReturnedAsWritten

\* the call on an array holding an object and an array returned the array
\* pretty-printed
C14_Witness ==
    /\ Called
    /\ argument = JArr(<< JObj(<< <<"answer", JStr("in array")>> >>), JArr(<<Null>>) >>)
    /\ result = JStr("[\n  {\n    \"answer\": \"in array\"\n  },\n  [\n    null\n  ]\n]")

(***************************************************************************)
(* JSON.parse(text), for texts whose numbers are integers and whose        *)
(* strings have no \b or \u escape.  A parse gives ok, the value, and the  *)
(* position after it.                                                      *)
(***************************************************************************)
ParseFail == [ok |-> FALSE, value |-> Undefined, next |-> 0]
Parsed(v, n) == [ok |-> TRUE, value |-> v, next |-> n]

StartsWith(s, i, lit) == i + Len(lit) - 1 <= Len(s) /\ SubSeq(s, i, i + Len(lit) - 1) = lit

\* the white space of JSON: space, tab, line feed, carriage return
IsJsonWhiteSpace(ch) == ch \in {" ", "\t", "\n", "\r"}

RECURSIVE SkipJsonWhiteSpace(_, _)
SkipJsonWhiteSpace(s, i) ==
    IF i <= Len(s) /\ IsJsonWhiteSpace(CharAt(s, i)) THEN SkipJsonWhiteSpace(s, i + 1) ELSE i

\* the characters that end a run of plain characters in a string literal
NotPlain == {"\"", "\\", "\n", "\t", "\r", "\f"}
\* the first position from i on that is past the end of s or holds a quote,
\* a backslash or a control character
PlainEnd(s, i) ==
    CHOOSE j \in i..(Len(s) + 1) :
        /\ j > Len(s) \/ CharAt(s, j) \in NotPlain
        /\ \A k \in i..(j - 1) : CharAt(s, k) \notin NotPlain

\* the characters of a string literal from position i on, acc read so far,
\* up to the closing quote
RECURSIVE ParseChars(_, _, _)
ParseChars(s, i, acc) ==
    IF i > Len(s) THEN ParseFail
    ELSE LET ch == CharAt(s, i)
         IN  IF ch = "\"" THEN Parsed(JStr(acc), i + 1)
             ELSE IF ch \in {"\n", "\t", "\r", "\f"} THEN ParseFail
             ELSE IF ch # "\\"
                  THEN LET j == PlainEnd(s, i) IN ParseChars(s, j, acc \o SubSeq(s, i, j - 1))
             ELSE IF i + 1 > Len(s) THEN ParseFail
             ELSE LET e == CharAt(s, i + 1)
                  IN  CASE e = "\"" -> ParseChars(s, i + 2, acc \o "\"")
                        [] e = "\\" -> ParseChars(s, i + 2, acc \o "\\")
                        [] e = "/" -> ParseChars(s, i + 2, acc \o "/")
                        [] e = "n" -> ParseChars(s, i + 2, acc \o "\n")
                        [] e = "t" -> ParseChars(s, i + 2, acc \o "\t")
                        [] e = "r" -> ParseChars(s, i + 2, acc \o "\r")
                        [] e = "f" -> ParseChars(s, i + 2, acc \o "\f")
                        [] OTHER -> ParseFail

\* an integer literal at position i: no leading zero, an optional minus
ParseNumber(s, i) ==
    LET neg == StartsWith(s, i, "-")
        j == IF neg THEN i + 1 ELSE i
        d == ReadDigits(s, j, 0, 0)
    IN  IF d[2] = 0 \/ (d[2] > 1 /\ CharAt(s, j) = "0") THEN ParseFail
        ELSE IF j + d[2] <= Len(s) /\ CharAt(s, j + d[2]) \in {".", "e", "E"} THEN ParseFail
        ELSE Parsed(JNum(IF neg THEN 0 - d[1] ELSE d[1]), j + d[2])

\* members with key set to value: a repeated key keeps its place and takes
\* the later value
WithMember(members, key, value) ==
    IF \E k \in 1..Len(members) : members[k][1] = key
    THEN [k \in 1..Len(members) |-> IF members[k][1] = key THEN <<key, value>> ELSE members[k]]
    ELSE Append(members, <<key, value>>)

RECURSIVE ParseValue(_, _)
RECURSIVE ParseMembers(_, _, _)
RECURSIVE ParseElements(_, _, _)

\* the value that starts at or after position i, white space skipped
ParseValue(s, i) ==
    LET j == SkipJsonWhiteSpace(s, i)
    IN  IF j > Len(s) THEN ParseFail
        ELSE CASE CharAt(s, j) = "{" ->
                    IF StartsWith(s, SkipJsonWhiteSpace(s, j + 1), "}")
                    THEN Parsed(JObj(<<>>), SkipJsonWhiteSpace(s, j + 1) + 1)
                    ELSE ParseMembers(s, j + 1, <<>>)
               [] CharAt(s, j) = "[" ->
                    IF StartsWith(s, SkipJsonWhiteSpace(s, j + 1), "]")
                    THEN Parsed(JArr(<<>>), SkipJsonWhiteSpace(s, j + 1) + 1)
                    ELSE ParseElements(s, j + 1, <<>>)
               [] CharAt(s, j) = "\"" -> ParseChars(s, j + 1, "")
               [] StartsWith(s, j, "true") -> Parsed(JBool(TRUE), j + 4)
               [] StartsWith(s, j, "false") -> Parsed(JBool(FALSE), j + 5)
               [] StartsWith(s, j, "null") -> Parsed(Null, j + 4)
               [] OTHER -> ParseNumber(s, j)

\* the members of an object from position i on, where a key is due
ParseMembers(s, i, members) ==
    LET j == SkipJsonWhiteSpace(s, i)
    IN  IF ~StartsWith(s, j, "\"") THEN ParseFail
        ELSE LET key == ParseChars(s, j + 1, "")
                 colon == IF key.ok THEN SkipJsonWhiteSpace(s, key.next) ELSE 0
             IN  IF ~key.ok \/ ~StartsWith(s, colon, ":") THEN ParseFail
                 ELSE LET val == ParseValue(s, colon + 1)
                          after == IF val.ok THEN SkipJsonWhiteSpace(s, val.next) ELSE 0
                      IN  IF ~val.ok THEN ParseFail
                          ELSE IF StartsWith(s, after, "}")
                          THEN Parsed(JObj(WithMember(members, key.value[2], val.value)), after + 1)
                          ELSE IF StartsWith(s, after, ",")
                          THEN ParseMembers(s, after + 1, WithMember(members, key.value[2], val.value))
                          ELSE ParseFail

\* the elements of an array from position i on, where a value is due
ParseElements(s, i, elems) ==
    LET val == ParseValue(s, i)
        after == IF val.ok THEN SkipJsonWhiteSpace(s, val.next) ELSE 0
    IN  IF ~val.ok THEN ParseFail
        ELSE IF StartsWith(s, after, "]") THEN Parsed(JArr(Append(elems, val.value)), after + 1)
        ELSE IF StartsWith(s, after, ",") THEN ParseElements(s, after + 1, Append(elems, val.value))
        ELSE ParseFail

\* JSON.parse(text): ok is FALSE where JSON.parse throws
JSONparse(text) ==
    LET r == ParseValue(text, 1)
    IN  IF r.ok /\ SkipJsonWhiteSpace(text, r.next) > Len(text) THEN r ELSE ParseFail

(***************************************************************************)
(* The chat page: handleSubmit and the events around it.  A request in     *)
(* flight is the payload handleSubmit built for it; the code after         *)
(* `await fetch` runs when the request completes, in one of four ways.     *)
(* `await response.json()` is taken together with the fetch it follows:    *)
(* no state is written between the two.                                    *)
(***************************************************************************)
\* accepted submits explored
MaxSends == 2

quickReplies ==
    <<"What can this chatbot do?", "What can I try right now?", "Show me a sample answer">>

NotConfiguredError == "NeuralSeek API endpoint is not configured. Please set VITE_NEURALSEEK_API_BASE."
fallbackText == "Sorry, I could not reach NeuralSeek right now. Please try again in a moment."
FetchFailedError == "Failed to fetch a response from NeuralSeek."

UserMessage(text) == [sender |-> "user", text |-> JStr(text), isSuspicious |-> Undefined]
BotMessage(text, isSuspicious) == [sender |-> "bot", text |-> text, isSuspicious |-> isSuspicious]

\* a pushMessage that overwrites the last message
pushMessageReplacing(prev, message) == [prev EXCEPT ![Len(prev)] = message]

\* setMessages((prev) => [...prev, message])
pushMessage(prev, message) == Append(prev, message)

\* the places of the messages of history sent by sender
PlacesOf(history, sender) == {i \in 1..Len(history) : history[i].sender = sender}
Greatest(S) == CHOOSE i \in S : \A j \in S : j <= i

buildLastTurn(history) ==
    LET users == PlacesOf(history, "user")
        bots == PlacesOf(history, "bot")
    IN  IF users # {} /\ bots # {}
        THEN << [input |-> history[Greatest(users)].text, response |-> history[Greatest(bots)].text] >>
        ELSE <<>>

\* the payload of the request, as far as it depends on the conversation
PayloadOf(trimmed, historySnapshot) ==
    [agent |-> "ChatBot2", userInput |-> trimmed, lastTurn |-> buildLastTurn(historySnapshot)]

\* a submit guard that lets everything through
IgnoresSubmitNever(trimmed, waiting) == FALSE

\* !trimmed || isWaiting
IgnoresSubmit(trimmed, waiting) == trimmed = "" \/ waiting

\* the state written by an accepted submit, without setIsWaiting(true)
startSendNotWaiting(prev, userMessage) ==
    [messages |-> pushMessage(prev, userMessage), input |-> "", isWaiting |-> FALSE]

\* pushMessage(userMessage); setInput(''); setIsWaiting(true)
startSend(prev, userMessage) ==
    [messages |-> pushMessage(prev, userMessage), input |-> "", isWaiting |-> TRUE]

\* the text and the flag of the bot message for the response body `data`
botReplyFor(data) ==
    LET botReply == JsToString(resolveBotText(data)) \o "\"}"
        parsed == JSONparse(botReply)
    IN  IF parsed.ok /\ ~IsNullish(parsed.value)
        THEN BotMessage(Get(parsed.value, "response"), Get(parsed.value, "suspicious"))
        ELSE BotMessage(JStr(botReply), JBool(FALSE))

\* the state written after a 2xx response with body `data`
onSuccess(prev, data) ==
    [messages |-> pushMessage(prev, botReplyFor(data)), errorMessage |-> Null, isWaiting |-> FALSE]

\* the catch block without its finally
onFailureStillWaiting(prev) ==
    [messages |-> pushMessage(prev, BotMessage(JStr(fallbackText), Undefined)),
     errorMessage |-> JStr(FetchFailedError), isWaiting |-> TRUE]

\* the catch block without its pushMessage
onFailureSilent(prev) ==
    [messages |-> prev, errorMessage |-> JStr(FetchFailedError), isWaiting |-> FALSE]

\* the state written by the catch block and finally
onFailure(prev) ==
    [messages |-> pushMessage(prev, BotMessage(JStr(fallbackText), Undefined)),
     errorMessage |-> JStr(FetchFailedError), isWaiting |-> FALSE]

\* what the user types, and the quick replies tried
Typed == {"", " \f", " hi "}
RepliesTried == {quickReplies[1]}

\* the response bodies tried
ChatPayloads ==
    { JObj(<< <<"answer", JStr("hi")>> >>),
      JObj(<< <<"id", JNum(1)>> >>),
      Null,
      JStr("{\"suspicious\":true,\"response\":\"bad link"),
      JStr("{\"response\":\"ok\",\"suspicious\":false}"),
      JStr("{\"x\":\"") }

\* the statuses outside 200..299 tried
StatusesTried == {404, 500}

InitChat ==
    /\ ServerStarted({1})
    /\ NoCall
    /\ ReportsMounted(ReportApiUrl)
    /\ ModalMounted(ReportApiUrl)
    /\ \E url \in {"", EndpointUrl} : ChatMounted(url)

\* onChange of the input, which is disabled while waiting
ChangeInput(value) ==
    /\ ~isWaiting
    /\ input' = value
    /\ lastEvent' = Event("input", isWaiting, NoDetail)
    /\ UNCHANGED <<messages, isWaiting, errorMessage, API_BASE_URL, requests, fetches>>
    /\ UNCHANGED <<serverVars, callVars, reportsVars, modalVars>>

\* a quick reply button, disabled while waiting
handleQuickReply(reply) ==
    /\ ~isWaiting
    /\ input' = reply
    /\ lastEvent' = Event("input", isWaiting, NoDetail)
    /\ UNCHANGED <<messages, isWaiting, errorMessage, API_BASE_URL, requests, fetches>>
    /\ UNCHANGED <<serverVars, callVars, reportsVars, modalVars>>

\* a submit event of the form, up to the fetch call
handleSubmit ==
    /\ UNCHANGED <<serverVars, callVars, reportsVars, modalVars, API_BASE_URL>>
    /\ lastEvent' = Event("submit", isWaiting, NoDetail)
    /\ LET trimmed == trim(input)
       IN  IF IgnoresSubmit(trimmed, isWaiting)
           THEN UNCHANGED <<messages, input, isWaiting, errorMessage, requests, fetches>>
           ELSE IF API_BASE_URL = ""
           THEN /\ errorMessage' = JStr(NotConfiguredError)
                /\ UNCHANGED <<messages, input, isWaiting, requests, fetches>>
           ELSE LET userMessage == UserMessage(trimmed)
                    written == startSend(messages, userMessage)
                    historySnapshot == messages \o <<userMessage>>
                IN  /\ fetches < MaxSends
                    /\ messages' = written.messages
                    /\ input' = written.input
                    /\ isWaiting' = written.isWaiting
                    /\ requests' = Append(requests, PayloadOf(trimmed, historySnapshot))
                    /\ fetches' = fetches + 1
                    /\ UNCHANGED errorMessage

\* requests without the one at place i
Without(reqs, i) == SubSeq(reqs, 1, i - 1) \o SubSeq(reqs, i + 1, Len(reqs))

\* request i is over as `detail` says and `written` is the state its
\* handler writes
Settle(i, detail, written) ==
    /\ i \in 1..Len(requests)
    /\ requests' = Without(requests, i)
    /\ messages' = written.messages
    /\ errorMessage' = written.errorMessage
    /\ isWaiting' = written.isWaiting
    /\ lastEvent' = Event("settle", isWaiting, detail)
    /\ UNCHANGED <<input, API_BASE_URL, fetches>>
    /\ UNCHANGED <<serverVars, callVars, reportsVars, modalVars>>

\* fetch rejects: the request failed in transport
FetchRejects(i) == Settle(i, <<"rejected">>, onFailure(messages))
\* the response has a status outside 200..299
ResponseNotOk(i, status) == Settle(i, <<"status", status>>, onFailure(messages))
\* a 2xx response whose body is no JSON: response.json() rejects
ResponseNotJson(i) == Settle(i, <<"not json">>, onFailure(messages))
\* a 2xx response with body `data`
ResponseOk(i, data) == Settle(i, <<"ok", data>>, onSuccess(messages, data))

Completes ==
    \E i \in 1..Len(requests) :
        \/ FetchRejects(i)
        \/ \E status \in StatusesTried : ResponseNotOk(i, status)
        \/ ResponseNotJson(i)
        \/ \E data \in ChatPayloads : ResponseOk(i, data)

NextChat ==
    \/ \E value \in Typed : ChangeInput(value)
    \/ \E reply \in RepliesTried : handleQuickReply(reply)
    \/ handleSubmit
    \/ \E i \in 1..Len(requests) : FetchRejects(i)
    \/ \E i \in 1..Len(requests), status \in StatusesTried : ResponseNotOk(i, status)
    \/ \E i \in 1..Len(requests) : ResponseNotJson(i)
    \/ \E i \in 1..Len(requests), data \in ChatPayloads : ResponseOk(i, data)

SpecChat == InitChat /\ [][NextChat]_vars

\* a request in flight completes in the end
SpecChatLive == SpecChat /\ WF_vars(Completes)

(***************************************************************************)
(* C15.  At most one chat request in flight.                               *)
(***************************************************************************)
\* C15: in every state reached by submit events, input events and network
\* completions in any order, at most one request to the chat endpoint is in
\* flight.
C15_OneRequestInFlight == Len(requests) <= 1

\* the second request is in flight, the first having completed
C15_Witness ==
    /\ fetches = 2
    /\ Len(requests) = 1
    /\ Len(messages) = 4
    /\ isWaiting

(***************************************************************************)
(* C16.  A submit while waiting is a no-op.                                *)
(***************************************************************************)
\* C16: a step that handles a submit event while isWaiting is true leaves
\* the message list, the input text, the error banner and isWaiting as they
\* were, and sends no request.
C16_SubmitWhileWaitingIsNoOp ==
    [][ (isWaiting /\ lastEvent'.type = "submit")
            => UNCHANGED <<messages, input, errorMessage, isWaiting, requests, fetches>>
      ]_vars

\* a submit event was handled while the page was waiting, and the page still
\* waits for its one request, the user turn being the last message
C16_Witness ==
    /\ lastEvent = Event("submit", TRUE, NoDetail)
    /\ isWaiting
    /\ Len(requests) = 1
    /\ fetches = 1
    /\ Len(messages) = 2
    /\ messages[2].sender = "user"
    /\ input = ""
    /\ errorMessage = Null

(***************************************************************************)
(* C17.  Idle -> Waiting -> Idle.                                          *)
(***************************************************************************)
\* the step handles a submit event and sends a request
AcceptedSubmit ==
    /\ lastEvent'.type = "submit"
    /\ fetches' = fetches + 1
    /\ Len(requests') = Len(requests) + 1

\* the step is the completion of a request
Completion ==
    /\ lastEvent'.type = "settle"
    /\ Len(requests') = Len(requests) - 1

\* C17: isWaiting turns true only in a step that is an accepted submit, and
\* every accepted submit turns it true; it turns false only in a step that
\* is the completion of a request, and every completion (2xx, non-2xx,
\* transport failure) turns it false; and, requests completing in the end,
\* every state with isWaiting true is followed by one with isWaiting false.
C17_IdleWaitingIdle ==
    /\ [][ /\ (~isWaiting /\ isWaiting') => AcceptedSubmit
           /\ AcceptedSubmit => (~isWaiting /\ isWaiting')
           /\ (isWaiting /\ ~isWaiting') => Completion
           /\ Completion => (isWaiting /\ ~isWaiting')
         ]_vars
    /\ (isWaiting ~> ~isWaiting)

\* the page is idle again after its second request has completed
C17_Witness ==
    /\ ~isWaiting
    /\ lastEvent = Event("settle", TRUE, <<"status", 500>>)
    /\ fetches = 2
    /\ requests = <<>>
    /\ Len(messages) = 5

(***************************************************************************)
(* C18.  The bot turn for a 2xx response.                                  *)
(***************************************************************************)
\* the step completes a request with a 2xx response carrying JSON
SettledOk == lastEvent'.type = "settle" /\ lastEvent'.detail[1] = "ok"

\* the bot turn the claim gives for the response body `data`: from the
\* resolved string parsed as JSON, or the resolved string itself
ClaimedBotTurn(data) ==
    LET resolved == resolveBotText(data)
        parsed == JSONparse(resolved[2])
    IN  IF parsed.ok
        THEN BotMessage(OptGet(parsed.value, "response"), OptGet(parsed.value, "suspicious"))
        ELSE BotMessage(resolved, JBool(FALSE))

\* C18: the step that handles a 2xx response appends exactly one message, a
\* bot turn whose text and suspicious flag are the response and suspicious
\* fields of the resolved string parsed as JSON when that parses, and
\* otherwise exactly the resolved string and not suspicious.
C18_BotTurnFromResolvedString ==
    [][ SettledOk => messages' = Append(messages, ClaimedBotTurn(lastEvent'.detail[2])) ]_vars

(***************************************************************************)
(* C19.  A failed request.                                                 *)
(***************************************************************************)
\* the step completes a request that failed in transport or got a status
\* outside 200..299
SettledFailed == lastEvent'.type = "settle" /\ lastEvent'.detail[1] \in {"rejected", "status"}

\* C19: the step that handles a failed request appends exactly one message,
\* the bot turn with the fallback text, sets the banner error, makes the
\* page idle, and sends nothing; and at all times as many fetch calls have
\* been made as there are user turns, one per accepted submit.
C19_FailureAppendsFallback ==
    /\ [][ SettledFailed =>
              /\ Len(messages') = Len(messages) + 1
              /\ SubSeq(messages', 1, Len(messages)) = messages
              /\ messages'[Len(messages')].sender = "bot"
              /\ messages'[Len(messages')].text =
                    JStr("Sorry, I could not reach NeuralSeek right now. Please try again in a moment.")
              /\ errorMessage' = JStr("Failed to fetch a response from NeuralSeek.")
              /\ ~isWaiting'
              /\ requests' = <<>>
              /\ fetches' = fetches
         ]_vars
    /\ [](fetches = Cardinality(PlacesOf(messages, "user")))

\* the second request got status 404 after the first had failed in
\* transport: two fallback turns, the banner set, the page idle
C19_Witness ==
    /\ lastEvent = Event("settle", TRUE, <<"status", 404>>)
    /\ fetches = 2
    /\ requests = <<>>
    /\ ~isWaiting
    /\ Len(messages) = 5
    /\ messages[3].text = JStr(fallbackText)
    /\ messages[5].text = JStr(fallbackText)
    /\ errorMessage = JStr(FetchFailedError)

(***************************************************************************)
(* C20.  The user turn and the payload of an accepted submit.              *)
(***************************************************************************)
\* the most recent exchange in history: the last user turn that has a bot
\* turn right after it, with that bot turn; none: the empty list
PriorExchange(history) ==
    LET answered == {i \in 1..Len(history) - 1 :
                        history[i].sender = "user" /\ history[i + 1].sender = "bot"}
    IN  IF answered = {} THEN <<>>
        ELSE << [input |-> history[Greatest(answered)].text,
                 response |-> history[Greatest(answered) + 1].text] >>

\* C20: the step of an accepted submit appends the user turn holding the
\* trimmed input and sends a payload whose userInput is that text and whose
\* lastTurn is the most recent exchange of the conversation before the
\* submit (the user's previous utterance and the bot's reply to it), or
\* empty when there was none.
C20_LastTurnIsPriorExchange ==
    [][ AcceptedSubmit =>
            /\ messages' = Append(messages, UserMessage(trim(input)))
            /\ requests'[Len(requests')].userInput = trim(input)
            /\ requests'[Len(requests')].lastTurn = PriorExchange(messages)
      ]_vars


(***************************************************************************)
(* The My Reports page (src/pages/MyReports.tsx).  The pure helpers first. *)
(***************************************************************************)
\* the fetch calls of MyReports explored in one run
MaxLoads == 3
\* useState(6): the page size is never set again
pageSize == 6

Upper == "ABCDEFGHIJKLMNOPQRSTUVWXYZ"
Lower == "abcdefghijklmnopqrstuvwxyz"
LowerChar(ch) ==
    IF \E i \in 1..26 : CharAt(Upper, i) = ch
    THEN CharAt(Lower, CHOOSE i \in 1..26 : CharAt(Upper, i) = ch)
    ELSE ch

\* s.toLowerCase(), for the characters the model uses
RECURSIVE toLowerCase(_)
toLowerCase(s) ==
    IF Len(s) = 0 THEN "" ELSE LowerChar(CharAt(s, 1)) \o toLowerCase(SubSeq(s, 2, Len(s)))

\* s.includes(t)
includes(s, t) == \E i \in 1..(Len(s) - Len(t) + 1) : SubSeq(s, i, i + Len(t) - 1) = t

\* typeof v === 'object', which holds of null, arrays and objects
TypeofObject(v) == v[1] \in {"null", "array", "object"}

\* key in v, for an object or array v
In(key, v) == IsObject(v) /\ \E i \in 1..Len(v[2]) : v[2][i][1] = key

\* readString of normalizeReport: the first item[key] that is a string with
\* non-whitespace content, trimmed; fallback when there is none
RECURSIVE readString(_, _, _)
readString(item, keys, fallback) ==
    IF Len(keys) = 0 THEN fallback
    ELSE LET value == Get(item, keys[1])
         IN  IF IsString(value) /\ Len(trim(value[2])) > 0
             THEN trim(value[2])
             ELSE readString(item, Tail(keys), fallback)

\* a || b on strings
OrElse(a, b) == IF a # "" THEN a ELSE b

\* normalizeReport(item), with the clock new Date() reads: <<record>>, or
\* <<>> for null
normalizeReport(item, clock) ==
    IF ~Truthy(item) \/ ~TypeofObject(item) THEN <<>>
    ELSE LET ticketId == readString(item, <<"ticket_id", "ticketId", "TicketID">>, "")
             issueType == readString(item, <<"issue_type", "issueType", "IssueType">>, "")
             title == readString(item, <<"title", "Title">>, "")
             description == readString(item, <<"description", "Description">>, "")
             status == readString(item, <<"status", "Status">>, "")
             createdAt ==
                 readString(item, <<"created_at", "createdAt", "dateSubmitted", "DateSubmitted">>, "")
             raw == Coalesce(Get(item, "location"),
                             Coalesce(Get(item, "Location"), Coalesce(Get(item, "site"), Null)))
             locationValue ==
                 IF IsString(raw) /\ Len(trim(raw[2])) > 0 THEN JStr(trim(raw[2])) ELSE Null
         IN  IF Len(ticketId) = 0 THEN <<>>
             ELSE << [ ticketId |-> ticketId,
                       issueType |-> issueType,
                       title |-> OrElse(title, "Untitled Report"),
                       description |-> description,
                       status |-> OrElse(status, "Pending Review"),
                       createdAt |-> OrElse(createdAt, toISOString(clock)),
                       location |-> locationValue ] >>

\* rawCollection.map(normalizeReport).filter((item) => item !== null)
RECURSIVE normalizeAll(_, _)
normalizeAll(rawCollection, clock) ==
    IF Len(rawCollection) = 0 THEN <<>>
    ELSE normalizeReport(rawCollection[1], clock) \o normalizeAll(Tail(rawCollection), clock)

\* buildPageArray(totalPages, currentPage): the page numbers of the buttons,
\* ascending (a set ordered by the sort of the code)
buildPageArray(totalPages, currentPage) ==
    IF totalPages <= 6 THEN 1..totalPages
    ELSE {1, totalPages}
         \cup {i \in (currentPage - 1)..(currentPage + 1) : i > 1 /\ i < totalPages}
         \cup (IF currentPage - 2 > 1 THEN {currentPage - 2} ELSE {})
         \cup (IF currentPage + 2 < totalPages THEN {currentPage + 2} ELSE {})

\* extractPagination(payload): the first of payload.pagination, payload.meta
\* that is an object with one of the known keys; Null when there is none
extractPagination(payload) ==
    LET pagination == Get(payload, "pagination")
        meta == Get(payload, "meta")
        candidateValues ==
            (IF Truthy(pagination) /\ TypeofObject(pagination) THEN <<pagination>> ELSE <<>>)
            \o (IF Truthy(meta) /\ TypeofObject(meta) THEN <<meta>> ELSE <<>>)
        Known(candidate) ==
            \/ In("totalResults", candidate) \/ In("totalPages", candidate)
            \/ In("currentPage", candidate)
            \/ In("total", candidate) \/ In("total_pages", candidate)
            \/ In("current_page", candidate)
        found == SelectSeq(candidateValues, Known)
    IN  IF Len(found) > 0 THEN found[1] ELSE Null

InvalidJsonError == "Report API did not return valid JSON."

\* parseJsonSafely(response), of the text of the response:
\* [ok |-> TRUE, value |-> payload] or the Error thrown
parseJsonSafely(text) ==
    LET trimmed == trim(text)
    IN  IF Len(trimmed) = 0 THEN [ok |-> TRUE, value |-> JObj(<<>>)]
        ELSE LET r == JSONparse(trimmed)
             IN  IF r.ok THEN [ok |-> TRUE, value |-> r.value]
                 ELSE [ok |-> FALSE, message |-> InvalidJsonError]


(***************************************************************************)
(* The report API the page is configured with.  It answers as              *)
(* server/index.js does (ListReports, sent with res.json); its store is    *)
(* held in `reports` and, unlike the seed of the mock, has tickets of      *)
(* every status.                                                           *)
(***************************************************************************)
BackendStatuses == <<"Pending Review", "In Progress", "Resolved">>
BackendIssues == <<"Lost Device", "Phishing">>

BackendTicket(k) ==
    [ ticket_id |-> "SBU-" \o ToString(k),
      issue_type |-> JStr(BackendIssues[(k % 2) + 1]),
      title |-> JStr("Report " \o ToString(k)),
      description |-> JStr("seen at gate " \o ToString(k % 3)),
      location |-> IF k % 2 = 0 THEN Null ELSE Undefined,
      status |-> BackendStatuses[(k % 3) + 1],
      created_at |-> "2023-10-27 14:30:00" ]

\* n tickets, the newest (highest number) first
BackendStore(n) == [i \in 1..n |-> BackendTicket(n + 1 - i)]

\* a stored ticket as the JSON value res.json writes: undefined members are
\* left out
ReportJson(r) ==
    JObj(<< <<"ticket_id", JStr(r.ticket_id)>>,
            <<"issue_type", r.issue_type>>,
            <<"title", r.title>>,
            <<"description", r.description>> >>
         \o (IF r.location = Undefined THEN <<>> ELSE << <<"location", r.location>> >>)
         \o << <<"status", JStr(r.status)>>,
               <<"created_at", JStr(r.created_at)>> >>)

\* the body of a GET response as a JSON value
ListJson(body) ==
    JObj(<< <<"data", JArr([i \in 1..Len(body.data) |-> ReportJson(body.data[i])])>>,
            <<"pagination",
              JObj(<< <<"totalResults", body.pagination.totalResults>>,
                      <<"totalPages", body.pagination.totalPages>>,
                      <<"currentPage", body.pagination.currentPage>> >>)>> >>)

\* JSON.stringify(v) of a JSON value v, as res.json sends it
RECURSIVE jsonText(_)
jsonText(v) ==
    CASE v[1] = "string" -> Quote(v[2])
      [] v[1] = "number" -> ToString(v[2])
      [] v[1] = "boolean" -> IF v[2] THEN "true" ELSE "false"
      [] v[1] = "null" -> "null"
      [] v[1] = "array" ->
            "[" \o Concat([i \in 1..Len(v[2]) |-> jsonText(v[2][i])], ",") \o "]"
      [] v[1] = "object" ->
            "{" \o Concat([i \in 1..Len(v[2]) |->
                             Quote(v[2][i][1]) \o ":" \o jsonText(v[2][i][2])], ",") \o "}"

\* the text the API sends for page p of store
PageText(store, p) == jsonText(ListJson(ListReports(store, QueryOf(p, pageSize)).body))

(***************************************************************************)
(* MyReports: the effect on [currentPage, pageSize], the completions of    *)
(* its fetch, the pagination buttons, the filters.                         *)
(***************************************************************************)
ReportsNotConfiguredError ==
    "Report API endpoint is not configured. Please set VITE_REPORT_API_URL."
\* what the engine reports for payload.data of a null payload
NullPayloadError == "Cannot read properties of null (reading 'data')"
FetchError == "Failed to fetch"
LoadFailedError(status) == "Failed to load reports (" \o ToString(status) \o ")"

\* a field of a pagination object when it is a number, else undefined
NumberIn(paginationData, key) ==
    IF paginationData # Null /\ In(key, paginationData) /\ IsNumber(Get(paginationData, key))
    THEN Get(paginationData, key)
    ELSE Undefined

\* the try block after a parsed payload: the state it leaves
applyPayload(state, payload, clock) ==
    LET data == Get(payload, "data")
        alt == Get(payload, "reports")
        rawCollection == IF IsArray(data) THEN data[2]
                         ELSE IF IsArray(alt) THEN alt[2]
                         ELSE <<>>
        normalized == normalizeAll(rawCollection, clock)
        paginationData == extractPagination(payload)
        resolvedTotal ==
            Coalesce(NumberIn(paginationData, "totalResults"),
                     Coalesce(NumberIn(paginationData, "total"), JNum(Len(normalized))))[2]
        resolvedTotalPages ==
            Coalesce(NumberIn(paginationData, "totalPages"),
                     Coalesce(NumberIn(paginationData, "total_pages"),
                              JNum(Max(1, CeilPos(resolvedTotal, pageSize)))))[2]
    IN  [state EXCEPT !.reports = normalized,
                      !.totalResults = resolvedTotal,
                      !.totalPages = resolvedTotalPages,
                      !.isLoading = FALSE]

\* the catch block that keeps what was loaded before
loadFailedKeepsList(state, message) ==
    [state EXCEPT !.errorMessage = JStr(message),
                  !.isLoading = FALSE]

\* the catch block and finally
loadFailed(state, message) ==
    [state EXCEPT !.errorMessage = JStr(message),
                  !.reports = <<>>,
                  !.totalResults = 0,
                  !.totalPages = 1,
                  !.isLoading = FALSE]

\* what a response with this status and text leaves
loaded(state, status, text, clock) ==
    IF ~(status \in 200..299) THEN loadFailed(state, LoadFailedError(status))
    ELSE LET parsed == parseJsonSafely(text)
         IN  IF ~parsed.ok THEN loadFailed(state, parsed.message)
             ELSE IF parsed.value = Null THEN loadFailed(state, NullPayloadError)
             ELSE applyPayload(state, parsed.value, clock)

\* filteredReports comparing the text as written, without toLowerCase
filteredReportsCaseSensitive(state) ==
    LET normalizedSearch == trim(state.searchTerm)
        Shown(report) ==
            LET matchesStatus == state.activeStatus = "all" \/ report.status = state.activeStatus
                haystack == report.ticketId \o " " \o report.issueType \o " "
                            \o report.title \o " " \o report.description
            IN  IF normalizedSearch = "" THEN matchesStatus
                ELSE matchesStatus /\ includes(haystack, normalizedSearch)
    IN  SelectSeq(state.reports, Shown)

\* the list the table shows: filteredReports
filteredReports(state) ==
    LET normalizedSearch == toLowerCase(trim(state.searchTerm))
        Shown(report) ==
            LET matchesStatus == state.activeStatus = "all" \/ report.status = state.activeStatus
                haystack == toLowerCase(report.ticketId \o " " \o report.issueType \o " "
                                        \o report.title \o " " \o report.description)
            IN  IF normalizedSearch = "" THEN matchesStatus
                ELSE matchesStatus /\ includes(haystack, normalizedSearch)
    IN  SelectSeq(state.reports, Shown)

STATUS_FILTERS == {"all", "Pending Review", "In Progress", "Resolved"}
\* what is typed into the search box
Searches == {"", " 1 P ", "GATE 1"}
\* the filter buttons clicked
StatusesClicked == {"all", "Resolved"}
\* the sizes of the API's store: one page, three pages
BackendSizes == {2, 13}
\* the status of the responses that are not ok
LoadStatusesTried == {500}
\* the response texts tried besides the API's own
OddTexts == {"", " \n", "<html>", "null", "{\"reports\":[{\"TicketID\":\" T-1 \"},7],\"meta\":{\"total\":9}}"}

InitReports ==
    /\ counter = CounterSeed
    /\ \E n \in BackendSizes : reports = BackendStore(n)
    /\ now = 0
    /\ conn = [c \in {1} |-> Idle]
    /\ ChatMounted(EndpointUrl)
    /\ ModalMounted(ReportApiUrl)
    /\ NoCall
    /\ \E url \in {"", ReportApiUrl} : ReportsMounted(url)

\* fetchReports() of the effect, up to its await: from state, to the state
\* and the requests in flight
fetchReports(state) ==
    IF REPORTS_API_URL = ""
    THEN /\ myReports' = [state EXCEPT !.errorMessage = JStr(ReportsNotConfiguredError)]
         /\ UNCHANGED <<loads, loadCount>>
    ELSE /\ myReports' = [state EXCEPT !.isLoading = TRUE, !.errorMessage = Null]
         /\ loads' = Append(loads, state.currentPage)
         /\ loadCount' = loadCount + 1

\* the effect after the first render
MountEffect ==
    /\ loadEvent.type = "mount"
    /\ fetchReports(myReports)
    /\ loadEvent' = Event("effect", myReports.isLoading, NoDetail)
    /\ UNCHANGED <<serverVars, chatVars, callVars, modalVars, REPORTS_API_URL>>

\* setCurrentPage(page): the effect runs when the page changed
GoTo(page, button) ==
    /\ loadEvent.type # "mount"
    /\ loadCount < MaxLoads
    /\ loadEvent' = Event(button, myReports.isLoading, <<"page", page>>)
    /\ IF page = myReports.currentPage
       THEN UNCHANGED <<myReports, loads, loadCount>>
       ELSE fetchReports([myReports EXCEPT !.currentPage = page])
    /\ UNCHANGED <<serverVars, chatVars, callVars, modalVars, REPORTS_API_URL>>

PreviousPage ==
    /\ myReports.currentPage # 1
    /\ GoTo(Max(myReports.currentPage - 1, 1), "previous")

NextPage ==
    /\ myReports.currentPage # myReports.totalPages
    /\ GoTo(Min(myReports.currentPage + 1, myReports.totalPages), "next")

PageButton(pageNumber) ==
    /\ pageNumber \in buildPageArray(myReports.totalPages, myReports.currentPage)
    /\ GoTo(pageNumber, "number")

handleStatusChange(status) ==
    /\ loadEvent.type # "mount"
    /\ ~myReports.isLoading
    /\ myReports' = [myReports EXCEPT !.activeStatus = status]
    /\ loadEvent' = Event("filter", myReports.isLoading, NoDetail)
    /\ UNCHANGED <<serverVars, chatVars, callVars, modalVars, REPORTS_API_URL, loads, loadCount>>

handleSearchChange(value) ==
    /\ loadEvent.type # "mount"
    /\ myReports' = [myReports EXCEPT !.searchTerm = value]
    /\ loadEvent' = Event("search", myReports.isLoading, NoDetail)
    /\ UNCHANGED <<serverVars, chatVars, callVars, modalVars, REPORTS_API_URL, loads, loadCount>>

\* the request at place i of loads completes and leaves state written
LoadSettles(i, detail, written) ==
    /\ i \in 1..Len(loads)
    /\ myReports' = written
    /\ loads' = Without(loads, i)
    /\ loadEvent' = Event("settled", myReports.isLoading, detail)
    /\ UNCHANGED <<serverVars, chatVars, callVars, modalVars, REPORTS_API_URL, loadCount>>

LoadRejects(i) ==
    LoadSettles(i, <<"rejected", loads[i]>>, loadFailed(myReports, FetchError))

LoadResponds(i, status, text) ==
    LoadSettles(i, <<"response", loads[i], status, text>>, loaded(myReports, status, text, now))

\* the API answers the request at place i
LoadAnswered(i) ==
    /\ i \in 1..Len(loads)
    /\ LoadResponds(i, 200, PageText(reports, loads[i]))

LoadOdd(i) ==
    \E text \in OddTexts : LoadResponds(i, 200, text)

LoadNotOk(i) ==
    \E status \in LoadStatusesTried : LoadResponds(i, status, "Internal Server Error")

NextReports ==
    \/ MountEffect
    \/ PreviousPage
    \/ NextPage
    \/ \E pageNumber \in 1..3 : PageButton(pageNumber)
    \/ \E status \in StatusesClicked : handleStatusChange(status)
    \/ \E value \in Searches : handleSearchChange(value)
    \/ \E i \in 1..MaxLoads : LoadRejects(i)
    \/ \E i \in 1..MaxLoads : LoadAnswered(i)
    \/ \E i \in 1..MaxLoads : LoadOdd(i)
    \/ \E i \in 1..MaxLoads : LoadNotOk(i)

SpecReports == InitReports /\ [][NextReports]_vars


(***************************************************************************)
(* C21: the list My Reports displays.                                      *)
(***************************************************************************)
\* the tickets of the loaded page, and the list the table is built from
LoadedPage == myReports.reports
Displayed == filteredReports(myReports)

\* the trimmed lower-cased search term
Term == toLowerCase(trim(myReports.searchTerm))
\* t occurs in s, case ignored in s
Occurs(t, s) ==
    LET low == toLowerCase(s)
    IN  \E i \in 0..(Len(low) - Len(t)) : \A k \in 1..Len(t) : CharAt(low, i + k) = CharAt(t, k)

MatchesFilter(report) ==
    myReports.activeStatus = "all" \/ report.status = myReports.activeStatus
\* one of the four fields contains the term
FieldMatches(report) ==
    \/ Occurs(Term, report.ticketId)
    \/ Occurs(Term, report.issueType)
    \/ Occurs(Term, report.title)
    \/ Occurs(Term, report.description)
\* the four fields, joined by single spaces, contain the term
JoinedMatches(report) ==
    Occurs(Term, report.ticketId \o " " \o report.issueType \o " "
                 \o report.title \o " " \o report.description)

\* the tickets of the loaded page, in its order, that match filter and search
PickedByField == SelectSeq(LoadedPage, LAMBDA r : MatchesFilter(r) /\ FieldMatches(r))
PickedByJoined == SelectSeq(LoadedPage, LAMBDA r : MatchesFilter(r) /\ JoinedMatches(r))

\* a step that handles a change of the status filter or of the search box
FilterOrSearchStep == loadEvent'.type \in {"filter", "search"}

\* C21 as stated: the displayed list is exactly the tickets of the loaded
\* page, in its order, that match the active status filter and one of whose
\* ticketId, issueType, title and description contains the trimmed
\* lower-cased search term.
C21_FieldContainsTerm == Displayed = PickedByField

\* C21, amended: the displayed list is exactly the tickets of the loaded page,
\* in its order, that match the active status filter ('all' matches every
\* status) and whose ticketId, issueType, title and description, joined by
\* single spaces and lower-cased, contain the trimmed lower-cased search
\* term; it is the loaded page when the filter is 'all' and the search is
\* empty; a change of filter or search sends no request.
C21_JoinedTextContainsTerm ==
    /\ [](/\ Displayed = PickedByJoined
          /\ (myReports.activeStatus = "all" /\ Term = "" => Displayed = LoadedPage))
    /\ [][FilterOrSearchStep => UNCHANGED <<loads, loadCount>>]_vars

\* a page of six tickets is loaded, and the filter Resolved with the search
\* ' 1 P ' leaves the one ticket whose id ends in 1 and whose type starts
\* with P
C21_Witness ==
    /\ loadEvent.type \in {"filter", "search"}
    /\ myReports.activeStatus = "Resolved"
    /\ myReports.searchTerm = " 1 P "
    /\ Len(LoadedPage) = 6
    /\ Len(Displayed) = 1
    /\ Len(PickedByField) = 0


(***************************************************************************)
(* The report dialog (src/components/ReportModal.tsx).                     *)
(***************************************************************************)
\* the POST requests one run of the dialog sends
MaxSubmits == 2

\* U+2026, the one character the code appends to a shortened title; the
\* module is ASCII, so it is written ~ here
Ellipsis == "~"

RECURSIVE Repeat(_, _)
Repeat(s, n) ==
    IF n = 0 THEN ""
    ELSE IF n = 1 THEN s
    ELSE Repeat(s, n \div 2) \o Repeat(s, n - (n \div 2))

\* source.slice(0, 137): the first 137 characters
slice137(source) == SubSeq(source, 1, Min(137, Len(source)))

\* truncateTitle that never shortens
truncateTitleWhole(value, fallback) == IF Len(trim(value)) > 0 THEN value ELSE fallback

\* truncateTitle(value, fallback)
truncateTitle(value, fallback) ==
    LET source == IF Len(trim(value)) > 0 THEN value ELSE fallback
    IN  IF Len(source) > 140 THEN slice137(source) \o Ellipsis ELSE source

\* generateTicketId(): SBU-<date>-<up to four random characters>
generateTicketId(randomSegment) == "SBU-20251108-" \o randomSegment

\* new Date().toLocaleString('en-US', {...}) at the time of the model
LocaleNow == "November 8, 2025 at 12:00 PM"

\* formatTimestamp(value), value a string or undefined
formatTimestamp(value) ==
    IF IsString(value) /\ Len(trim(value[2])) > 0 THEN value[2] ELSE LocaleNow

ModalNotConfiguredError ==
    "Report API endpoint is not configured. Please set VITE_REPORT_API_URL."
SubmitFailedError(status) == "Failed to submit report (" \o ToString(status) \o ")."

\* a ReportDialogContext, tagged to tell it from null; members not given
\* are undefined; flaggedMessage is a string
Context(flaggedMessage, reason, issueType, ticketId, timestamp, details) ==
    <<"context", [ flaggedMessage |-> flaggedMessage,
                   reason |-> reason,
                   issueType |-> issueType,
                   ticketId |-> ticketId,
                   timestamp |-> timestamp,
                   details |-> details ]>>

\* the report link of a bot message of the chat: { flaggedMessage: message.text }
FlaggedTexts == {" \f", Repeat("a", 140), Repeat("b", 141)}
FlaggedContext(text) == Context(text, Undefined, Undefined, Undefined, Undefined, Undefined)

\* the New Report button of My Reports
ManualContext ==
    Context("Manual report from My Reports page",
            JStr("User opened report dialog from My Reports page."),
            Undefined, Undefined, Undefined, Undefined)

\* the context handleExternalReport (handleGlobalReport on the home page)
\* sets for an event with this detail
ExternalContext(detail) ==
    Context(Coalesce(detail.flaggedMessage, JStr("Manual report from navigation bar"))[2],
            Coalesce(detail.reason, JStr("User opened report dialog from the navigation.")),
            detail.issueType, detail.ticketId, detail.timestamp, detail.details)

\* the chat page as host: the report link of a bot message with this text
ChatHost(text) ==
    [page |-> "chat", fallbackTitle |-> "Suspicious report submitted from chatbot",
     context |-> FlaggedContext(text)]

\* My Reports as host, with its New Report button
ReportsHost ==
    [page |-> "reports", fallbackTitle |-> "Suspicious report submitted from My Reports page",
     context |-> ManualContext]

\* the hosts tried.  host.context is the context the host's own control
\* sets (the button of the home page sets none).  The navigation bar is on
\* every page and its Report button dispatches secureSBU:openReport with
\* NavDetail, which every host handles.
HostsTried == {ChatHost(t) : t \in FlaggedTexts} \cup {ReportsHost, HomeHost}

IssuesTried == {"lost-device"}
DetailsTyped == {" stolen badge "}
RandomSegments == {"K3F9"}
\* bodies of 2xx responses that are not the mock API's
OddPostTexts == {"{\"ticket_id\":\" T-9 \",\"created_at\":\"2025-11-08\"}"}

\* the dependencies of the effect: context?.details, context?.flaggedMessage,
\* context?.issueType, context?.reason, isOpen
EffectDeps(state) ==
    IF state.context = Null
    THEN <<Undefined, Undefined, Undefined, Undefined, state.isOpen>>
    ELSE <<state.context[2].details, JStr(state.context[2].flaggedMessage),
           state.context[2].issueType, state.context[2].reason, state.isOpen>>

\* the body of the effect
resetEffect(state) ==
    IF ~state.isOpen
    THEN [state EXCEPT !.selectedIssue = Null, !.details = "", !.mode = "form",
                       !.submission = Null, !.isSubmitting = FALSE, !.submitError = Null]
    ELSE [state EXCEPT !.selectedIssue = IF state.context = Null THEN Null ELSE Coalesce(state.context[2].issueType, Null),
                       !.details = IF state.context = Null THEN "" ELSE Coalesce(state.context[2].details, JStr(""))[2],
                       !.mode = "form",
                       !.submission = Null, !.isSubmitting = FALSE, !.submitError = Null]

\* the dialog after the host has set the props isOpen and context: the
\* effect runs when one of its dependencies has changed
rendered(state, isOpen, context) ==
    LET next == [state EXCEPT !.isOpen = isOpen, !.context = context]
    IN  IF EffectDeps(next) # EffectDeps(state) THEN resetEffect(next) ELSE next

\* canSubmit, which disables the submit button
canSubmit(state) ==
    state.selectedIssue # Null /\ Len(trim(state.details)) > 0 /\ ~state.isSubmitting

\* the guard of handleSubmit
SubmitReturnsEarly(state) ==
    state.selectedIssue = Null \/ state.context = Null \/ state.isSubmitting

\* the body handleSubmit posts
PostBody(state, fallbackTitle) ==
    [ issue_type |-> state.selectedIssue,
      title |-> JStr(truncateTitle(state.context[2].flaggedMessage, fallbackTitle)),
      description |-> JStr(trim(state.details)),
      location |-> Undefined ]

\* no response yet
NoResponse == <<>>

\* the request handleSubmit sends, with what its continuation holds, the
\* response the API has sent for it and, as history, whether the dialog was
\* closed since it was sent
PostOf(state, fallbackTitle, randomSegment) ==
    [ body |-> PostBody(state, fallbackTitle),
      selectedIssue |-> state.selectedIssue,
      fallbackTicketId |-> Coalesce(state.context[2].ticketId, JStr(generateTicketId(randomSegment)))[2],
      fallbackTimestamp |-> formatTimestamp(state.context[2].timestamp),
      response |-> NoResponse,
      closedSince |-> FALSE ]

\* a string member of data, trimmed; '' when data is null or the member is
\* not a string
ApiString(data, key) ==
    IF Truthy(data) /\ IsString(Get(data, key)) THEN trim(Get(data, key)[2]) ELSE ""

\* a ReportSubmission, tagged to tell it from null
Submission(issueType, ticketId, timestamp) ==
    <<"submission", [issueType |-> issueType, ticketId |-> ticketId, timestamp |-> timestamp]>>

\* the try block after a 2xx response with parsed body data (Null when
\* response.json() failed), then finally
submitted(state, post, data) ==
    LET apiTicketId == ApiString(data, "ticket_id")
        ticketId == OrElse(apiTicketId, post.fallbackTicketId)
        apiTimestamp == ApiString(data, "created_at")
        timestamp == OrElse(apiTimestamp, post.fallbackTimestamp)
    IN  [state EXCEPT !.submission = Submission(post.selectedIssue, ticketId,
                                                formatTimestamp(JStr(timestamp))),
                      !.mode = "success",
                      !.isSubmitting = FALSE]

\* catch and finally
submitFailed(state, message) ==
    [state EXCEPT !.submitError = JStr(message), !.isSubmitting = FALSE]

\* what a response with this status and text leaves
responded(state, post, status, text) ==
    IF ~(status \in 200..299)
    THEN submitFailed(state, OrElse(trim(text), SubmitFailedError(status)))
    ELSE LET r == JSONparse(text)
         IN  submitted(state, post, IF r.ok THEN r.value ELSE Null)

\* the mock API's response as res.json sends it
PostResponseJson(response) ==
    IF response.status = 201
    THEN JObj(<< <<"message", JStr(response.body.message)>>,
                 <<"report", ReportJson(response.body.report)>> >>)
    ELSE JObj(<< <<"message", JStr(response.body.message)>> >>)

InitModal ==
    /\ ServerStarted({1})
    /\ ChatMounted(EndpointUrl)
    /\ ReportsMounted(ReportApiUrl)
    /\ NoCall
    /\ REPORT_API_URL \in {"", ReportApiUrl}
    /\ modal = ModalState
    /\ host \in HostsTried
    /\ posts = <<>>
    /\ postCount = 0
    /\ modalEvent = Event("mount", FALSE, NoDetail)

\* modalEvent is history: the last close, submit or completion (settled)
\* with its outcome; other steps leave no record
Unrecorded == Event("other", FALSE, NoDetail)

ModalFrame == UNCHANGED <<serverVars, chatVars, callVars, reportsVars, host, REPORT_API_URL>>

\* the host's own control opens the dialog: the report link of the chat and
\* the New Report button of My Reports set their context, the button of the
\* home page leaves the context as it is
OpenReport ==
    /\ modal' = rendered(modal, TRUE, IF host.page = "home" THEN modal.context ELSE host.context)
    /\ modalEvent' = Unrecorded
    /\ UNCHANGED <<posts, postCount>>
    /\ ModalFrame

\* handleExternalReport: a secureSBU:openReport event arrives, the dialog
\* open or not
handleExternalReport(detail) ==
    /\ modal' = rendered(modal, TRUE, ExternalContext(detail))
    /\ modalEvent' = Unrecorded
    /\ UNCHANGED <<posts, postCount>>
    /\ ModalFrame

\* onClose: the host closes the dialog; the chat page and My Reports clear
\* the context, the home page keeps it
onClose ==
    /\ modal.isOpen
    /\ modal' = rendered(modal, FALSE, IF host.page = "home" THEN modal.context ELSE Null)
    /\ modalEvent' = Event("close", FALSE, NoDetail)
    /\ posts' = [i \in 1..Len(posts) |-> [posts[i] EXCEPT !.closedSince = TRUE]]
    /\ UNCHANGED postCount
    /\ ModalFrame

\* an issue option is clicked
setSelectedIssue(type) ==
    /\ modal.isOpen /\ modal.mode = "form" /\ ~modal.isSubmitting
    /\ modal' = [modal EXCEPT !.selectedIssue = JStr(type)]
    /\ modalEvent' = Unrecorded
    /\ UNCHANGED <<posts, postCount>>
    /\ ModalFrame

\* the textarea changes
setDetails(value) ==
    /\ modal.isOpen /\ modal.mode = "form" /\ ~modal.isSubmitting
    /\ modal.selectedIssue # Null
    /\ modal' = [modal EXCEPT !.details = value]
    /\ modalEvent' = Unrecorded
    /\ UNCHANGED <<posts, postCount>>
    /\ ModalFrame

\* the Submit Report button, which is there in form mode and disabled unless
\* canSubmit, calls handleSubmit; the step goes up to its await
handleSubmitReport ==
    /\ modal.isOpen /\ modal.mode = "form"
    /\ canSubmit(modal)
    /\ ModalFrame
    /\ IF SubmitReturnsEarly(modal)
       THEN /\ modalEvent' = Event("submit", FALSE, <<"ignored">>)
            /\ UNCHANGED <<modal, posts, postCount>>
       ELSE IF REPORT_API_URL = ""
       THEN /\ modal' = [modal EXCEPT !.submitError = JStr(ModalNotConfiguredError)]
            /\ modalEvent' = Event("submit", FALSE, <<"not configured">>)
            /\ UNCHANGED <<posts, postCount>>
       ELSE /\ postCount < MaxSubmits
            /\ \E randomSegment \in RandomSegments :
                  posts' = Append(posts, PostOf(modal, host.fallbackTitle, randomSegment))
            /\ postCount' = postCount + 1
            /\ modal' = [modal EXCEPT !.isSubmitting = TRUE, !.submitError = Null]
            /\ modalEvent' = Event("submit", FALSE, <<"sent">>)

\* app.post('/api/reports') of the mock API handles the request at place i;
\* its response is on the way
ApiHandlesPost(i) ==
    /\ i \in 1..Len(posts)
    /\ posts[i].response = NoResponse
    /\ LET b == posts[i].body
           id == buildTicketId(counter)
           report == MakeReport(id[2], b, toISOString(now))
           response == IF MissingRequired(b) THEN BadRequest ELSE Created(report)
           text == jsonText(PostResponseJson(response))
       IN  /\ IF MissingRequired(b)
              THEN UNCHANGED <<counter, reports>>
              ELSE /\ counter' = id[1]
                   /\ reports' = unshift(reports, report)
           /\ posts' = [posts EXCEPT ![i].response = <<response.status, text>>]
    /\ modalEvent' = Unrecorded
    /\ UNCHANGED <<modal, postCount, chatVars, callVars, reportsVars, host, REPORT_API_URL, now, conn>>

\* the request at place i is over and its continuation writes `written`;
\* the event records the outcome and whether the dialog was closed since
\* the request was sent
PostSettles(i, detail, written) ==
    /\ posts' = Without(posts, i)
    /\ modal' = written
    /\ modalEvent' = Event("settled", FALSE, Append(detail, posts[i].closedSince))
    /\ UNCHANGED <<postCount, serverVars, chatVars, callVars, reportsVars, host, REPORT_API_URL>>

\* await fetch rejects, the API having handled the request or not
PostRejects(i) ==
    /\ i \in 1..Len(posts)
    /\ PostSettles(i, <<"rejected">>, submitFailed(modal, FetchError))

\* the response of the mock API arrives
PostAnswered(i) ==
    /\ i \in 1..Len(posts)
    /\ posts[i].response # NoResponse
    /\ LET status == posts[i].response[1]
           text == posts[i].response[2]
       IN  PostSettles(i, <<"answered", status, text>>, responded(modal, posts[i], status, text))

\* another API answers 2xx with text, or 500 with an empty body
PostOdd(i) ==
    /\ i \in 1..Len(posts)
    /\ posts[i].response = NoResponse
    /\ \/ \E text \in OddPostTexts :
             PostSettles(i, <<"other", 200, text>>, responded(modal, posts[i], 200, text))
       \/ PostSettles(i, <<"other", 500, "">>, responded(modal, posts[i], 500, ""))

NextModal ==
    \/ OpenReport
    \/ handleExternalReport(NavDetail)
    \/ onClose
    \/ \E type \in IssuesTried : setSelectedIssue(type)
    \/ \E value \in DetailsTyped : setDetails(value)
    \/ handleSubmitReport
    \/ \E i \in 1..MaxSubmits : ApiHandlesPost(i)
    \/ \E i \in 1..MaxSubmits : PostRejects(i)
    \/ \E i \in 1..MaxSubmits : PostAnswered(i)
    \/ \E i \in 1..MaxSubmits : PostOdd(i)

SpecModal == InitModal /\ [][NextModal]_vars


(***************************************************************************)
(* C22: the title the dialog posts.                                        *)
(***************************************************************************)
\* the titles of the POST requests in flight
TitlesInFlight == {posts[i].body.title : i \in 1..Len(posts)}
HasContent(s) == \E i \in 1..Len(s) : ~IsWhiteSpace(CharAt(s, i))
\* a step in which handleSubmit sends a POST
SendsPost == Len(posts') = Len(posts) + 1
\* the title of the POST just sent
TitleSent == posts'[Len(posts')].body.title
\* the flagged message of the context the dialog has when it has
\* non-whitespace content, otherwise the fallback title of the host
TitleSource ==
    IF HasContent(modal.context[2].flaggedMessage)
    THEN modal.context[2].flaggedMessage
    ELSE host.fallbackTitle
\* short is the start of long, cut short
Shortened(short, long) ==
    /\ Len(short) < Len(long)
    /\ SubSeq(short, 1, Len(short) - 1) = SubSeq(long, 1, Len(short) - 1)

\* C22: the title of every POST the dialog sends is a non-empty string of
\* at most 140 characters: the flagged message when it has non-whitespace
\* content, otherwise the fallback title, as written when that has at most
\* 140 characters and shortened when it is longer.
C22_TitleAtMost140 ==
    [][SendsPost =>
         /\ IsString(TitleSent)
         /\ Len(TitleSent[2]) \in 1..140
         /\ IF Len(TitleSource) <= 140
            THEN TitleSent[2] = TitleSource
            ELSE Shortened(TitleSent[2], TitleSource)]_vars

\* a POST is in flight whose flagged message of 141 characters was shortened
C22_Witness ==
    /\ host.page = "chat"
    /\ Len(host.context[2].flaggedMessage) = 141
    /\ \E title \in TitlesInFlight : Len(title[2]) = 138


(***************************************************************************)
(* C23: a load that fails.                                                 *)
(***************************************************************************)
\* text is not valid JSON
NotJson(text) == ~JSONparse(text).ok
\* text has a character that is not white space
NotBlank(text) == \E i \in 1..Len(text) : ~IsWhiteSpace(CharAt(text, i))
\* text, its leading and trailing white space removed, is not empty and not
\* valid JSON
NotJsonTrimmed(text) == NotBlank(text) /\ NotJson(trim(text))
\* a response of the API: <<"response", page, status, text>>
IsResponse(d) == d[1] = "response"
Is2xx(status) == status >= 200 /\ status <= 299

\* the outcome d of a fetch is a failure as the claim lists them: a
\* transport error, a status outside 200..299, or a body that is not valid
\* JSON
FailedLoad(d) ==
    \/ d[1] = "rejected"
    \/ IsResponse(d) /\ (~Is2xx(d[3]) \/ NotJson(d[4]))
\* the same, the body being one that after trimming is not empty and not
\* valid JSON
FailedLoadNotBlank(d) ==
    \/ d[1] = "rejected"
    \/ IsResponse(d) /\ (~Is2xx(d[3]) \/ NotJsonTrimmed(d[4]))
\* a 2xx response whose body is empty or white space only
BlankBody(d) == IsResponse(d) /\ Is2xx(d[3]) /\ ~NotBlank(d[4])

\* a fetch of My Reports has just completed with outcome d
LoadSettled == loadEvent'.type = "settled"
\* the list and the totals of the fallback state, loading over, no request
\* sent in place of the one that completed
FallbackShown ==
    /\ myReports'.reports = <<>>
    /\ myReports'.totalResults = 0
    /\ myReports'.totalPages = 1
    /\ ~myReports'.isLoading
    /\ loadCount' = loadCount
    /\ Len(loads') = Len(loads) - 1
BannerSet == IsString(myReports'.errorMessage) /\ myReports'.errorMessage[2] # ""

\* C23 as stated: when a load fails (a non-2xx status, a transport error, a
\* body that is not valid JSON) My Reports is left with the error banner
\* set, an empty report list, totalResults 0, totalPages 1 and isLoading
\* false, and no request is sent in its place.
C23_FailedLoadFallsBack ==
    [][(LoadSettled /\ FailedLoad(loadEvent'.detail)) => (BannerSet /\ FallbackShown)]_vars

\* C23, amended: when a load fails (a non-2xx status, a transport error, a
\* body that is not valid JSON and not empty after trimming) My Reports is
\* left with the error banner set, an empty report list, totalResults 0,
\* totalPages 1 and isLoading false, and no request is sent in its place; a
\* 2xx response with an empty or white-space-only body leaves the same list
\* and totals and sets no error banner.
C23_NonBlankFailureFallsBack ==
    [][/\ (LoadSettled /\ FailedLoadNotBlank(loadEvent'.detail)) => (BannerSet /\ FallbackShown)
       /\ (LoadSettled /\ BlankBody(loadEvent'.detail)) =>
             (myReports'.errorMessage = myReports.errorMessage /\ FallbackShown)]_vars

\* the load of page 2 has just failed on a body that is not JSON, after a
\* page was shown
C23_Witness ==
    /\ loadEvent.type = "settled"
    /\ IsResponse(loadEvent.detail)
    /\ Is2xx(loadEvent.detail[3])
    /\ NotJsonTrimmed(loadEvent.detail[4])
    /\ loadEvent.detail[2] = 2
    /\ myReports.currentPage = 2
    /\ myReports.reports = <<>>
    /\ myReports.errorMessage # Null
    /\ loads = <<>>


(***************************************************************************)
(* C24: the ticket id of the success view.                                 *)
(***************************************************************************)
\* a step in which the 201 response of the mock API to a POST of the dialog
\* reaches handleSubmit
PostCreated ==
    /\ modalEvent'.type = "settled"
    /\ modalEvent'.detail[1] = "answered"
    /\ modalEvent'.detail[2] = 201
\* the ticket_id of the report in the body of a 201 response
StoredTicketId(text) == Get(Get(JSONparse(text).value, "report"), "ticket_id")[2]

\* C24: after the dialog's POST to the mock API succeeds, the ticket id of
\* the success view is the ticket_id of the ticket the server stored for
\* that request.
C24_ShownIdIsStoredId ==
    [][PostCreated =>
         /\ modal'.mode = "success"
         /\ modal'.submission # Null
         /\ modal'.submission[2].ticketId = StoredTicketId(modalEvent'.detail[3])
         /\ \E i \in 1..Len(reports) :
               reports[i].ticket_id = StoredTicketId(modalEvent'.detail[3])]_vars


(***************************************************************************)
(* C25: the page shown and the page requested.                             *)
(***************************************************************************)
\* what the response of the API for page p leaves of list and totals
PageShown(p) == applyPayload(myReports, JSONparse(PageText(reports, p)).value, now)
\* the list and totals shown are those of the API's response for page p
ShowsPage(p) ==
    /\ myReports.reports = PageShown(p).reports
    /\ myReports.totalResults = PageShown(p).totalResults
    /\ myReports.totalPages = PageShown(p).totalPages

\* the last completion was the API's answer (no failure, no other body)
LastAnswered ==
    /\ loadEvent.type = "settled"
    /\ loadEvent.detail[1] = "response"
    /\ loadEvent.detail[3] = 200
    /\ \E p \in 1..3 : loadEvent.detail[4] = PageText(reports, p)

\* C25: whenever no fetch is in flight, the list and totals shown are those
\* of the response to the request for the current page: a response for
\* another page that arrives later never overwrites them.  (Stated for the
\* states that an answer of the API has just left, with no error shown.)
C25_ShownPageIsCurrentPage ==
    (loads = <<>> /\ myReports.errorMessage = Null /\ LastAnswered)
        => ShowsPage(myReports.currentPage)


(***************************************************************************)
(* C26: closing and reopening the dialog.                                  *)
(***************************************************************************)
\* the outcome recorded by a completion: was the dialog closed since the
\* request was sent
ClosedSince(detail) == detail[Len(detail)]
\* a completion with a 2xx response
Succeeded(detail) == detail[1] \in {"answered", "other"} /\ detail[2] \in 200..299

\* a step that closes the dialog
Closes == modalEvent'.type = "close"
\* a step that brings the open dialog from the form to the success view
EntersSuccess == modal'.isOpen /\ modal.mode = "form" /\ modal'.mode = "success"

\* C26: closing the dialog leaves it in form mode with no submission, no
\* error and isSubmitting false; an open dialog leaves form mode only when a
\* POST sent since it was last opened succeeds, also when a POST sent before
\* the close completes afterwards.
C26_ReopenedStaysInForm ==
    [][/\ Closes =>
            /\ modal'.mode = "form"
            /\ modal'.submission = Null
            /\ modal'.submitError = Null
            /\ ~modal'.isSubmitting
       /\ EntersSuccess =>
            /\ modalEvent'.type = "settled"
            /\ Succeeded(modalEvent'.detail)
            /\ ~ClosedSince(modalEvent'.detail)]_vars


(***************************************************************************)
(* C27: POST requests in flight.                                           *)
(***************************************************************************)
\* a step in which handleSubmit returns without sending: it was called
\* while isSubmitting, with no issue selected, or with no endpoint (in the
\* first two cases the button is disabled and no such step is taken)
SubmitRefused ==
    /\ modalEvent'.type = "submit"
    /\ modal.isSubmitting \/ modal.selectedIssue = Null \/ REPORT_API_URL = ""

\* C27: at most one POST of the dialog is in flight at any time; a submit
\* while isSubmitting, with no issue selected or with no endpoint configured
\* sends no request and leaves mode and submission unchanged; the success
\* view is entered only by the completion of a POST with a 2xx response.
C27_OnePostInFlight ==
    /\ [](Len(posts) <= 1)
    /\ [][/\ SubmitRefused =>
               /\ UNCHANGED <<posts, postCount>>
               /\ modal'.mode = modal.mode
               /\ modal'.submission = modal.submission
          /\ (modal.mode = "form" /\ modal'.mode = "success") =>
               /\ modalEvent'.type = "settled"
               /\ Succeeded(modalEvent'.detail)]_vars


(***************************************************************************)
(* C28: the message list of the chat.                                      *)
(***************************************************************************)
\* the sends that have completed
CompletedSends == fetches - Len(requests)
\* after the welcome message the senders alternate, the user first
Alternates(history) ==
    \A i \in 2..Len(history) : history[i].sender = (IF i % 2 = 0 THEN "user" ELSE "bot")
\* short is the start of long
IsPrefix(short, long) == Len(short) <= Len(long) /\ SubSeq(long, 1, Len(short)) = short
\* a step that handles a submit with an empty or whitespace-only input
BlankSubmit == lastEvent'.type = "submit" /\ ~HasContent(input)

\* C28: the message list is append-only and starts with the welcome message,
\* after which user and bot messages alternate strictly; its length is
\* 1 + 2 * (completed sends) + (1 while waiting), so every accepted user turn
\* has got exactly one bot turn once its request completed; a submit with
\* an empty or whitespace-only input adds nothing.
C28_MessagesAlternate ==
    /\ [](/\ messages[1] = initialMessages[1]
          /\ Alternates(messages)
          /\ Len(messages) = 1 + 2 * CompletedSends + (IF isWaiting THEN 1 ELSE 0))
    /\ [][/\ IsPrefix(messages, messages')
          /\ BlankSubmit => messages' = messages]_vars

\* two exchanges are complete: welcome, user, bot, user, bot
C28_Witness ==
    /\ Len(messages) = 5
    /\ fetches = 2
    /\ requests = <<>>
    /\ ~isWaiting
    /\ lastEvent.type = "settle"


(***************************************************************************)
(* C29: the current page and the number of pages.                          *)
(***************************************************************************)
\* C29: in every reachable state of My Reports, over previous, next and
\* page-number clicks and successful or failed loads,
\* 1 <= currentPage <= totalPages.
C29_CurrentPageWithinTotal ==
    /\ 1 <= myReports.currentPage
    /\ myReports.currentPage <= myReports.totalPages

(***************************************************************************)
(* C30: the ticket ids the server issues.                                  *)
(***************************************************************************)
\* the number of tickets created since the server started
CreatedCount == Len(reports) - Len(SeedReports)

\* the ticket created by the k-th successful POST; unshift puts the newest
\* ticket first
KthCreated(k) == reports[CreatedCount + 1 - k]

\* a step in which connection c's request is answered without creating a
\* ticket: a GET, or a POST answered 400
AnsweredWithoutTicket(c) ==
    /\ Handled(c)
    /\ IsGet(c) \/ conn'[c].res.status = 400

\* C30: the k-th successful POST since the server started gets the ticket
\* id SBU-(8394+k), so the numbers increase strictly in creation order; the
\* counter is 8394 plus the number of tickets created; a GET and a rejected
\* POST leave the counter and the store as they are.
C30_IdsCountUpFromSeed ==
    /\ [](/\ counter = CounterSeed + CreatedCount
          /\ \A k \in 1..CreatedCount : KthCreated(k).ticket_id = TicketIdOf(CounterSeed + k))
    /\ [][\A c \in DOMAIN conn :
            /\ PostSucceeded(c) =>
                 /\ conn'[c].res.body.report.ticket_id = TicketIdOf(CounterSeed + CreatedCount + 1)
                 /\ counter' = counter + 1
            /\ AnsweredWithoutTicket(c) => counter' = counter /\ reports' = reports]_vars

\* two tickets were created, a GET and a rejected POST were answered in
\* between or afterwards, and the last answer was one of those
C30_Witness ==
    /\ CreatedCount = 2
    /\ counter = CounterSeed + 2
    /\ reports[1].ticket_id = "SBU-8396"
    /\ reports[2].ticket_id = "SBU-8395"
    /\ \E c \in DOMAIN conn :
         /\ conn[c].st = "done"
         /\ IsPost(c)
         /\ conn[c].res.status = 400

====
